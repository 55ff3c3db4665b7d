--------------------------- MODULE FileStoreProofs ---------------------------
(***************************************************************************)
(* Proofs about FileStore for every finite set of files of every size,      *)
(* every quota, every set of concurrent deletions and any number of crashes *)
(* and failures.                                                            *)
(***************************************************************************)
EXTENDS FileStore, FiniteSetTheorems, WellFoundedInduction, TLAPS

-----------------------------------------------------------------------------
(* Induction, with sets in the place of predicates *)

(* A set of numbers that has 0 and all successors is the naturals. *)
LEMMA NatSetInduction ==
    ASSUME NEW A \in SUBSET Nat, 0 \in A, \A n \in A : n + 1 \in A
    PROVE  A = Nat
<1> SUFFICES ASSUME A # Nat PROVE FALSE
  OBVIOUS
<1> DEFINE T == Nat \ A
<1>1. T \subseteq Nat /\ T # {}
  OBVIOUS
<1>2. PICK x \in T : \A y \in T : ~(<<y, x>> \in OpToRel(<, Nat))
  <2> HIDE DEF T
  <2> QED
    BY <1>1, WFMin, NatLessThanWellFounded
<1>3. x # 0 /\ x \in Nat
  OBVIOUS
<1>4. x - 1 \in Nat /\ x - 1 < x /\ (x - 1) + 1 = x
  BY <1>3
<1>5. x - 1 \notin T
  BY <1>2, <1>4 DEF OpToRel
<1> QED
  BY <1>4, <1>5

(* A family of subsets of a finite set that has every set all of whose       *)
(* proper subsets it has is the family of all subsets.                      *)
LEMMA SubsetInduction ==
    ASSUME NEW S, IsFiniteSet(S), NEW A \in SUBSET (SUBSET S),
           \A T \in SUBSET S : (\A U \in (SUBSET T) \ {T} : U \in A) => T \in A
    PROVE  A = SUBSET S
<1> SUFFICES ASSUME A # SUBSET S PROVE FALSE
  OBVIOUS
<1> DEFINE B == (SUBSET S) \ A
<1>1. B \subseteq SUBSET S /\ B # {}
  OBVIOUS
<1>2. IsWellFoundedOn(StrictSubsetOrdering(S), SUBSET S)
  <2>1. FiniteSubsetsOf(S) = SUBSET S
    BY FS_FiniteSubsetsOfFinite
  <2>2. IsWellFoundedOn(StrictSubsetOrdering(S), FiniteSubsetsOf(S))
    BY FS_StrictSubsetOrderingWellFounded
  <2> QED
    BY <2>1, <2>2
<1>3. PICK T \in B : \A U \in B : ~(<<U, T>> \in StrictSubsetOrdering(S))
  <2> HIDE DEF B
  <2> QED
    BY <1>1, <1>2, WFMin
<1>4. ASSUME NEW U \in (SUBSET T) \ {T} PROVE U \in A
  BY <1>3 DEF StrictSubsetOrdering
<1> QED
  BY <1>4

-----------------------------------------------------------------------------
(* The sum of the sizes of a set of files *)

Pick(s) == CHOOSE f \in s : TRUE

(* g satisfies the equation of the sum on the sets of D. *)
Sums(g, D) ==
    \A s \in D : g[s] = IF s = {} THEN 0 ELSE Size[Pick(s)] + g[s \ {Pick(s)}]

(* A choice out of a set of files. *)
LEMMA PickIn ==
    ASSUME NEW s \in SUBSET Files, s # {}
    PROVE  /\ Pick(s) \in s /\ Pick(s) \in Files /\ Size[Pick(s)] \in Nat
           /\ s \ {Pick(s)} \in (SUBSET s) \ {s}
<1>1. Pick(s) \in s
  BY DEF Pick
<1> QED
  BY <1>1, FilesAssumption

(* There is a function that sums the sizes of the sets of up to n files, ... *)
LEMMA SumsUpTo ==
    \A n \in Nat : LET D == {s \in SUBSET Files : Cardinality(s) <= n}
                   IN  \E g \in [D -> Nat] : Sums(g, D)
<1> DEFINE D(n) == {s \in SUBSET Files : Cardinality(s) <= n}
           A == {n \in Nat : \E g \in [D(n) -> Nat] : Sums(g, D(n))}
<1>0. \A s \in SUBSET Files : IsFiniteSet(s) /\ Cardinality(s) \in Nat
  BY FilesAssumption, FS_Subset, FS_CardinalityType
<1>1. 0 \in A
  <2> DEFINE g == [s \in D(0) |-> 0]
  <2>1. \A s \in D(0) : s = {}
    BY <1>0, FS_EmptySet
  <2>2. g \in [D(0) -> Nat] /\ Sums(g, D(0))
    BY <2>1 DEF Sums
  <2> QED
    BY <2>2
<1>2. ASSUME NEW n \in A PROVE n + 1 \in A
  <2>1. PICK g \in [D(n) -> Nat] : Sums(g, D(n))
    OBVIOUS
  <2> DEFINE h == [s \in D(n + 1) |->
                    IF s \in D(n) THEN g[s] ELSE Size[Pick(s)] + g[s \ {Pick(s)}]]
  <2>2. ASSUME NEW s \in D(n + 1), s # {}
        PROVE  s \ {Pick(s)} \in D(n) /\ Size[Pick(s)] \in Nat
    <3>1. Pick(s) \in s /\ s \ {Pick(s)} \in SUBSET Files /\ Size[Pick(s)] \in Nat
      BY <2>2, PickIn
    <3>2. Cardinality(s \ {Pick(s)}) = Cardinality(s) - 1
      BY <1>0, <3>1, FS_RemoveElement
    <3>3. Cardinality(s) \in Nat /\ Cardinality(s) <= n + 1
      BY <1>0
    <3> QED
      BY <3>1, <3>2, <3>3
  <2>3. {} \in D(n)
    BY FS_EmptySet
  <2>4. D(n) \subseteq D(n + 1)
    BY <1>0
  <2>5. ASSUME NEW s \in D(n + 1) PROVE h[s] \in Nat
    <3>1. CASE s \in D(n)
      BY <3>1
    <3>2. CASE s \notin D(n)
      <4>1. s # {}
        BY <2>3, <3>2
      <4>2. s \ {Pick(s)} \in D(n) /\ Size[Pick(s)] \in Nat
        BY <2>2, <4>1
      <4> HIDE DEF D
      <4> QED
        BY <3>2, <4>2
    <3> QED
      BY <3>1, <3>2
  <2>6. ASSUME NEW s \in D(n + 1)
        PROVE  h[s] = IF s = {} THEN 0 ELSE Size[Pick(s)] + h[s \ {Pick(s)}]
    <3>1. CASE s = {}
      BY <2>1, <2>3, <2>4, <3>1 DEF Sums
    <3>2. CASE s # {}
      <4>1. s \ {Pick(s)} \in D(n) /\ s \ {Pick(s)} \in D(n + 1)
        BY <2>2, <2>4, <3>2
      <4> HIDE DEF D
      <4>2. h[s \ {Pick(s)}] = g[s \ {Pick(s)}]
        BY <4>1
      <4>3. h[s] = Size[Pick(s)] + g[s \ {Pick(s)}]
        BY <2>1, <3>2 DEF Sums
      <4> QED
        BY <3>2, <4>2, <4>3
    <3> QED
      BY <3>1, <3>2
  <2>7. h \in [D(n + 1) -> Nat] /\ Sums(h, D(n + 1))
    <3> HIDE DEF D
    <3>1. h \in [D(n + 1) -> Nat]
      BY <2>5
    <3> HIDE DEF h
    <3> QED
      BY <2>6, <3>1 DEF Sums
  <2> HIDE DEF h, D
  <2> QED
    BY <2>7
<1>3. A = Nat
  <2> HIDE DEF A
  <2>1. A \in SUBSET Nat
    BY DEF A
  <2> QED
    BY <1>1, <1>2, <2>1, NatSetInduction
<1> QED
  BY <1>3

(* ... and so one for every set of files, unique, which is SumOfSizes. *)
LEMMA SumAsFunction ==
    \E G \in [SUBSET Files -> Nat] :
        Sums(G, SUBSET Files) /\ \A S \in SUBSET Files : SumOfSizes(S) = G[S]
<1>1. PICK G \in [SUBSET Files -> Nat] : Sums(G, SUBSET Files)
  <2> DEFINE n == Cardinality(Files)
             D == {s \in SUBSET Files : Cardinality(s) <= n}
  <2>1. n \in Nat /\ \A s \in SUBSET Files : Cardinality(s) <= n
    BY FilesAssumption, FS_CardinalityType, FS_Subset
  <2>2. D = SUBSET Files
    BY <2>1
  <2>3. \E g \in [D -> Nat] : Sums(g, D)
    BY <2>1, SumsUpTo
  <2> QED
    BY <2>2, <2>3
<1>2. ASSUME NEW S \in SUBSET Files PROVE SumOfSizes(S) = G[S]
  <2> DEFINE Eq(g) == g = [s \in SUBSET S |->
                              IF s = {} THEN 0 ELSE Size[Pick(s)] + g[s \ {Pick(s)}]]
             iter == CHOOSE g : Eq(g)
             R == [s \in SUBSET S |-> G[s]]
  <2>1. ASSUME NEW s \in SUBSET S, s # {} PROVE s \ {Pick(s)} \in (SUBSET s) \ {s}
    BY <2>1, PickIn
  <2>2. Eq(R)
    <3>1. ASSUME NEW s \in SUBSET S
          PROVE  G[s] = IF s = {} THEN 0 ELSE Size[Pick(s)] + R[s \ {Pick(s)}]
      <4>1. CASE s = {}
        BY <1>1, <4>1 DEF Sums
      <4>2. CASE s # {}
        <5>1. s \ {Pick(s)} \in SUBSET S
          BY <2>1, <4>2
        <5> QED
          BY <1>1, <4>2, <5>1 DEF Sums
      <4> QED
        BY <4>1, <4>2
    <3> QED
      BY <3>1
  <2>3. Eq(iter)
    BY <2>2
  <2>4. SumOfSizes(S) = iter[S]
    BY DEF SumOfSizes, MapThenSumSet, MapThenFoldSet, Pick
  <2> DEFINE A == {s \in SUBSET S : iter[s] = G[s]}
  <2>5. ASSUME NEW T \in SUBSET S, \A U \in (SUBSET T) \ {T} : U \in A PROVE T \in A
    <3> HIDE DEF iter
    <3>1. iter[T] = IF T = {} THEN 0 ELSE Size[Pick(T)] + iter[T \ {Pick(T)}]
      BY <2>3
    <3>2. G[T] = IF T = {} THEN 0 ELSE Size[Pick(T)] + G[T \ {Pick(T)}]
      BY <1>1 DEF Sums
    <3>3. T # {} => iter[T \ {Pick(T)}] = G[T \ {Pick(T)}]
      BY <2>1, <2>5
    <3> QED
      BY <3>1, <3>2, <3>3
  <2>6. A = SUBSET S
    <3> HIDE DEF A
    <3>1. A \in SUBSET (SUBSET S) /\ IsFiniteSet(S)
      BY FilesAssumption, FS_Subset DEF A
    <3> QED
      BY <2>5, <3>1, SubsetInduction
  <2> QED
    BY <2>4, <2>6
<1> QED
  BY <1>1, <1>2

(* The sum of the sizes of files is a number, and taking a file out takes    *)
(* its size off, whatever order the sum was taken in.                        *)
LEMMA SumFacts ==
    /\ \A S \in SUBSET Files : SumOfSizes(S) \in Nat
    /\ \A S \in SUBSET Files : \A f \in S : SumOfSizes(S) = Size[f] + SumOfSizes(S \ {f})
<1>1. PICK G \in [SUBSET Files -> Nat] :
        Sums(G, SUBSET Files) /\ \A S \in SUBSET Files : SumOfSizes(S) = G[S]
  BY SumAsFunction
<1> DEFINE A == {S \in SUBSET Files : \A f \in S : G[S] = Size[f] + G[S \ {f}]}
<1>2. ASSUME NEW T \in SUBSET Files, \A U \in (SUBSET T) \ {T} : U \in A PROVE T \in A
  <2> SUFFICES ASSUME NEW f \in T PROVE G[T] = Size[f] + G[T \ {f}]
    OBVIOUS
  <2> DEFINE c == Pick(T)
  <2>1. c \in T /\ Size[c] \in Nat /\ Size[f] \in Nat
    BY PickIn, FilesAssumption
  <2>2. G[T] = Size[c] + G[T \ {c}]
    BY <1>1 DEF Sums
  <2> HIDE DEF c
  <2>3. CASE f = c
    BY <2>2, <2>3
  <2>4. CASE f # c
    <3>1. T \ {c} \in A /\ T \ {f} \in A
      BY <1>2, <2>1
    <3>2. G[T \ {c}] = Size[f] + G[(T \ {c}) \ {f}]
      BY <2>4, <3>1
    <3>3. G[T \ {f}] = Size[c] + G[(T \ {f}) \ {c}]
      BY <2>1, <2>4, <3>1
    <3>4. (T \ {c}) \ {f} = (T \ {f}) \ {c} /\ (T \ {c}) \ {f} \in SUBSET Files
      OBVIOUS
    <3> DEFINE m == G[(T \ {c}) \ {f}]
    <3>5. m \in Nat
      BY <3>4
    <3>6. G[T \ {c}] = Size[f] + m /\ G[T \ {f}] = Size[c] + m
      BY <3>2, <3>3, <3>4
    <3> HIDE DEF m
    <3> QED
      BY <2>1, <2>2, <3>5, <3>6
  <2> QED
    BY <2>3, <2>4
<1>3. A = SUBSET Files
  <2> HIDE DEF A
  <2>1. A \in SUBSET (SUBSET Files)
    BY DEF A
  <2> QED
    BY <1>2, <2>1, FilesAssumption, SubsetInduction
<1>4. \A S \in SUBSET Files : SumOfSizes(S) \in Nat
  BY <1>1
<1>5. ASSUME NEW S \in SUBSET Files, NEW f \in S PROVE SumOfSizes(S) = Size[f] + SumOfSizes(S \ {f})
  <2>1. S \in A /\ S \ {f} \in SUBSET Files
    BY <1>3
  <2>2. G[S] = Size[f] + G[S \ {f}]
    BY <2>1
  <2> QED
    BY <1>1, <2>1, <2>2
<1> QED
  BY <1>4, <1>5

(* The live files, whose sizes the quota counts. *)
Live == {f \in Files : rows[f] = "live"}

(* What the quota is compared with is a number. *)
LEMMA UsedSum == Used = SumOfSizes(Live) /\ Used \in Nat
<1>1. Used = SumOfSizes(Live)
  BY DEF Used, Live
<1>2. Live \in SUBSET Files
  BY DEF Live
<1> QED
  BY <1>1, <1>2, SumFacts

-----------------------------------------------------------------------------
(* The inductive invariant *)

(* A file has no row until its upload inserts it and one when it is created; *)
(* what it is inserted for is in storage, unless a cleanup took it.         *)
UploadsInv ==
    \A f \in Files :
        /\ upload[f].pc \in {"new", "reading", "staged", "stored"} => rows[f] = "none"
        /\ upload[f].pc = "created" => rows[f] # "none"
        /\ upload[f].pc = "stored" /\ f \notin exposed => object[f]

(* An intent belongs to a row marked deleted: they are one transaction.      *)
IntentsInv == \A f \in Files : intents[f] # "none" => rows[f] = "deleted"

(* A deletion request works on a recorded intent, and finalizes it only when *)
(* the object is gone.                                                      *)
RemovalInv ==
    \A p \in Removers : removal[p].pc # "idle" =>
        /\ removal[p].file \in Files /\ intents[removal[p].file] # "none"
        /\ removal[p].pc = "deleted" => ~ object[removal[p].file]

(* So does the recovery worker. *)
RecoveryInv ==
    /\ \A f \in recovery.targets : intents[f] # "none"
    /\ recovery.pc \in {"delete", "finalize"} =>
         recovery.file \in Files /\ intents[recovery.file] # "none"
    /\ recovery.pc = "finalize" => ~ object[recovery.file]

(* A cleanup goes on with a list read earlier: what is neither on it nor     *)
(* exposed has no upload under way and none that succeeded.                 *)
CleanupInv ==
    cleanup.pc # "idle" =>
        /\ \A f \in Files : f \notin cleanup.known /\ f \notin exposed =>
                upload[f].pc \in {"new", "refused"}
        /\ cleanup.todo \cap cleanup.known = {}

FilesInv == /\ TypeOK /\ UploadsInv /\ IntentsInv /\ RemovalInv /\ RecoveryInv /\ CleanupInv
            /\ UploadKept /\ AnsweredErased

(* A restored file was created; nothing else is there yet. *)
LEMMA InitFilesInv == Init => FilesInv
<1> SUFFICES ASSUME Init PROVE FilesInv
  OBVIOUS
<1> USE FilesAssumption DEF NoUpload, NoRemoval, NoRecovery, NoCleanup
<1>0. ASSUME NEW f \in Files
      PROVE  /\ upload[f] \in UploadState
             /\ upload[f].pc = IF f \in Restored THEN "created" ELSE "new"
  <2>1. CASE f \in Restored
    BY <2>1 DEF Init, UploadState
  <2>2. CASE f \notin Restored
    BY <2>2 DEF Init, UploadState
  <2> QED
    BY <2>1, <2>2
<1>1. TypeOK
  <2>1. upload \in [Files -> UploadState]
    BY <1>0 DEF Init
  <2>2. removal \in [Removers -> RemovalState] /\ recovery \in RecoveryState
    BY DEF Init, RemovalState, RecoveryState
  <2>3. cleanup \in CleanupState
    BY DEF Init, CleanupState
  <2> QED
    BY <2>1, <2>2, <2>3 DEF Init, TypeOK
<1>2. UploadsInv /\ UploadKept
  BY <1>0 DEF Init, UploadsInv, UploadKept, Downloadable
<1>3. IntentsInv /\ RemovalInv /\ RecoveryInv /\ CleanupInv /\ AnsweredErased
  BY DEF Init, IntentsInv, RemovalInv, RecoveryInv, CleanupInv, AnsweredErased
<1> QED
  BY <1>1, <1>2, <1>3 DEF FilesInv

-----------------------------------------------------------------------------
(* Uploads *)

(* What an upload of f can do: to f alone, whose upload goes from one stage   *)
(* to another; to its row, only when it inserts it; to its object, only while *)
(* it has no row that anything else could know of.                           *)
LEMMA UploadEffect ==
    ASSUME FilesInv, NEW f \in Files,
           UploadRead(f) \/ UploadStage(f) \/ UploadPut(f) \/ UploadInsert(f) \/ UploadUndo(f)
    PROVE  /\ TypeOK'
           /\ UNCHANGED <<running, intents, removal, recovery, cleanup, erased>>
           /\ \A g \in Files \ {f} : /\ upload'[g] = upload[g] /\ rows'[g] = rows[g]
                                      /\ object'[g] = object[g]
           /\ exposed' = exposed \/ exposed' = exposed \cup {f}
           /\ \/ /\ upload[f].pc = "new" /\ upload'[f].pc \in {"reading", "refused"}
                 /\ cleanup.pc # "idle" => f \in exposed'
                 /\ UNCHANGED <<rows, object>>
              \/ /\ upload[f].pc = "reading" /\ upload'[f].pc \in {"staged", "refused"}
                 /\ UNCHANGED <<rows, object>>
              \/ /\ upload[f].pc = "staged" /\ UNCHANGED rows
                 /\ (upload'[f].pc = "stored" /\ object'[f]) \/ upload'[f].pc = "refused"
              \/ /\ upload[f].pc = "stored" /\ UNCHANGED object
                 /\ \/ upload'[f].pc = "created" /\ rows'[f] = "live"
                    \/ upload'[f].pc = "unbound" /\ rows'[f] \in {"none", "live"}
              \/ /\ upload[f].pc = "unbound" /\ upload'[f].pc = "refused"
                 /\ UNCHANGED rows /\ (object'[f] => object[f])
<1> TypeOK
  BY DEF FilesInv
<1> upload[f] \in UploadState /\ upload \in [Files -> UploadState]
  BY DEF TypeOK
<1>1. CASE UploadRead(f)
  <2>1. PICK u \in UploadState : /\ upload' = [upload EXCEPT ![f] = u]
                                /\ u.pc \in {"reading", "refused"}
    <3> DEFINE no == [pc |-> "refused", used |-> 0]
               yes == [pc |-> "reading", used |-> Used]
    <3>1. upload' = [upload EXCEPT ![f] = IF Used >= Quota THEN no ELSE yes]
      BY <1>1 DEF UploadRead
    <3>2. no \in UploadState /\ yes \in UploadState /\ {no.pc, yes.pc} = {"refused", "reading"}
      BY UsedSum DEF UploadState
    <3> HIDE DEF no, yes
    <3>3. upload' = [upload EXCEPT ![f] = no] \/ upload' = [upload EXCEPT ![f] = yes]
      BY <3>1
    <3> QED
      BY <3>2, <3>3
  <2> QED
    BY <1>1, <2>1 DEF UploadRead, TypeOK, store
<1>2. CASE UploadStage(f)
  <2>1. PICK u \in UploadState : /\ upload' = [upload EXCEPT ![f] = u]
                                /\ u.pc \in {"staged", "refused"}
    BY <1>2 DEF UploadStage, UploadState
  <2>2. staged' \in [Files -> BOOLEAN]
    BY <1>2 DEF UploadStage, TypeOK
  <2> QED
    BY <1>2, <2>1, <2>2 DEF UploadStage, TypeOK
<1>3. ASSUME NEW x \in {"stored", "created", "unbound", "refused"}, upload' = [upload EXCEPT ![f].pc = x]
      PROVE  /\ upload' \in [Files -> UploadState] /\ upload'[f].pc = x
             /\ \A g \in Files \ {f} : upload'[g] = upload[g]
  BY <1>3 DEF UploadState
<1>4. CASE UploadPut(f)
  <2>1. PICK x \in {"stored", "refused"}, o \in BOOLEAN :
           /\ upload' = [upload EXCEPT ![f].pc = x] /\ object' = [object EXCEPT ![f] = o]
           /\ x = "stored" => o
    BY <1>4 DEF UploadPut
  <2>2. /\ upload' \in [Files -> UploadState] /\ upload'[f].pc = x
        /\ \A g \in Files \ {f} : upload'[g] = upload[g]
    BY <1>3, <2>1
  <2>3. object' \in [Files -> BOOLEAN] /\ staged' \in [Files -> BOOLEAN]
    BY <1>4, <2>1 DEF UploadPut, TypeOK
  <2>4. object'[f] = o /\ \A g \in Files \ {f} : object'[g] = object[g]
    BY <2>1 DEF TypeOK
  <2> QED
    BY <1>4, <2>1, <2>2, <2>3, <2>4 DEF UploadPut, TypeOK
<1>5. CASE UploadInsert(f)
  <2>1. PICK x \in {"created", "unbound"}, row \in {"none", "live"} :
           /\ upload' = [upload EXCEPT ![f].pc = x] /\ rows' = [rows EXCEPT ![f] = row]
           /\ x = "created" => row = "live"
    BY <1>5 DEF UploadInsert
  <2>2. /\ upload' \in [Files -> UploadState] /\ upload'[f].pc = x
        /\ \A g \in Files \ {f} : upload'[g] = upload[g]
    BY <1>3, <2>1
  <2>3. /\ rows' \in [Files -> {"none", "live", "deleted"}] /\ rows'[f] = row
        /\ \A g \in Files \ {f} : rows'[g] = rows[g]
    BY <2>1 DEF TypeOK
  <2> QED
    BY <1>5, <2>1, <2>2, <2>3 DEF UploadInsert, TypeOK
<1>6. CASE UploadUndo(f)
  <2>1. /\ upload' \in [Files -> UploadState] /\ upload'[f].pc = "refused"
        /\ \A g \in Files \ {f} : upload'[g] = upload[g]
    BY <1>3, <1>6 DEF UploadUndo
  <2>2. /\ object' \in [Files -> BOOLEAN]
        /\ \A g \in Files \ {f} : object'[g] = object[g]
    BY <1>6 DEF UploadUndo, TypeOK
  <2> QED
    BY <1>6, <2>1, <2>2 DEF UploadUndo, TypeOK
<1> QED
  BY <1>1, <1>2, <1>4, <1>5, <1>6

(* Every stage of an upload keeps the invariant. *)
LEMMA UploadSteps == FilesInv /\ Uploads => FilesInv'
<1> SUFFICES ASSUME FilesInv, NEW f \in Files,
               UploadRead(f) \/ UploadStage(f) \/ UploadPut(f) \/ UploadInsert(f) \/ UploadUndo(f)
             PROVE  FilesInv'
  BY DEF Uploads
<1> DEFINE Frame == /\ UNCHANGED <<running, intents, removal, recovery, cleanup, erased>>
                    /\ \A g \in Files \ {f} : /\ upload'[g] = upload[g] /\ rows'[g] = rows[g]
                                               /\ object'[g] = object[g]
                    /\ exposed' = exposed \/ exposed' = exposed \cup {f}
           Moved == \/ /\ upload[f].pc = "new" /\ upload'[f].pc \in {"reading", "refused"}
                       /\ cleanup.pc # "idle" => f \in exposed'
                       /\ UNCHANGED <<rows, object>>
                    \/ /\ upload[f].pc = "reading" /\ upload'[f].pc \in {"staged", "refused"}
                       /\ UNCHANGED <<rows, object>>
                    \/ /\ upload[f].pc = "staged" /\ UNCHANGED rows
                       /\ (upload'[f].pc = "stored" /\ object'[f]) \/ upload'[f].pc = "refused"
                    \/ /\ upload[f].pc = "stored" /\ UNCHANGED object
                       /\ \/ upload'[f].pc = "created" /\ rows'[f] = "live"
                          \/ upload'[f].pc = "unbound" /\ rows'[f] \in {"none", "live"}
                    \/ /\ upload[f].pc = "unbound" /\ upload'[f].pc = "refused"
                       /\ UNCHANGED rows /\ (object'[f] => object[f])
<1>1. TypeOK' /\ Frame /\ Moved
  BY UploadEffect
<1> TypeOK /\ UploadsInv /\ IntentsInv
  BY DEF FilesInv
<1>2. UploadsInv'
  BY <1>1 DEF UploadsInv
<1>3. rows[f] # "none" => upload[f].pc = "unbound" /\ UNCHANGED rows
  BY <1>1 DEF UploadsInv
<1>4. IntentsInv'
  BY <1>1, <1>3 DEF IntentsInv
<1>5. UploadKept'
  <2>1. UploadKept
    BY DEF FilesInv
  <2> QED
    BY <1>1, <2>1 DEF UploadKept, Downloadable, UploadsInv
<1>6. ASSUME NEW g \in Files, intents[g] # "none"
      PROVE  g = f => upload[f].pc = "unbound" /\ upload'[f].pc = "refused"
  BY <1>1, <1>6 DEF IntentsInv, UploadsInv
<1>7. ASSUME NEW g \in Files, intents[g] # "none", ~ object[g] PROVE ~ object'[g]
  BY <1>1, <1>6, <1>7
<1>8. RemovalInv'
  BY <1>1, <1>7 DEF FilesInv, RemovalInv
<1>9. RecoveryInv'
  BY <1>1, <1>7 DEF FilesInv, RecoveryInv
<1>10. CleanupInv'
  BY <1>1 DEF FilesInv, CleanupInv
<1>11. AnsweredErased'
  BY <1>1, <1>3, <1>7 DEF FilesInv, AnsweredErased, TypeOK
<1> QED
  BY <1>1, <1>2, <1>4, <1>5, <1>8, <1>9, <1>10, <1>11 DEF FilesInv

-----------------------------------------------------------------------------
(* Deletions *)

(* storage.Delete touches one object, and only takes it away. *)
LEMMA DeleteEffect ==
    ASSUME TypeOK, NEW f \in Files, NEW ok \in BOOLEAN, Delete(f, ok)
    PROVE  /\ object' \in [Files -> BOOLEAN]
           /\ \A g \in Files \ {f} : object'[g] = object[g]
           /\ \A g \in Files : object'[g] => object[g]
           /\ ok => ~ object'[f]
<1>1. CASE ok
  BY <1>1 DEF Delete, TypeOK
<1>2. CASE ~ ok
  <2>1. PICK left \in BOOLEAN : object' = [object EXCEPT ![f] = object[f] /\ left]
    BY <1>2 DEF Delete
  <2> QED
    BY <1>2, <2>1 DEF TypeOK
<1> QED
  BY <1>1, <1>2

(* Taking away the object of a file whose deletion is recorded is no loss.   *)
LEMMA ErasingKeeps ==
    ASSUME FilesInv, NEW f \in Files, intents[f] # "none",
           \A g \in Files \ {f} : object'[g] = object[g],
           \A g \in Files : object'[g] => object[g],
           UNCHANGED <<rows, intents, upload, cleanup, exposed, erased>>
    PROVE  /\ UploadsInv' /\ IntentsInv' /\ CleanupInv' /\ UploadKept' /\ AnsweredErased'
           /\ \A g \in Files : ~ object[g] => ~ object'[g]
<1> rows[f] = "deleted" /\ UploadsInv /\ UploadKept
  BY DEF FilesInv, IntentsInv
<1>1. UploadsInv'
  BY DEF UploadsInv
<1>2. UploadKept'
  BY DEF UploadKept, Downloadable
<1>3. IntentsInv' /\ CleanupInv'
  BY DEF FilesInv, IntentsInv, CleanupInv
<1>4. AnsweredErased'
  BY DEF FilesInv, AnsweredErased, TypeOK
<1> QED
  BY <1>1, <1>2, <1>3, <1>4

(* Recording a deletion.  A file already marked stays marked.                *)
LEMMA RemoveIntentStep ==
    ASSUME FilesInv, NEW p \in Removers, NEW f \in Files, RemoveIntent(p, f)
    PROVE  FilesInv'
<1> TypeOK
  BY DEF FilesInv
<1>1. UNCHANGED <<running, object, staged, upload, recovery, cleanup, exposed, erased>>
  BY DEF RemoveIntent
<1>2. rows[f] # "none" /\ rows' = [rows EXCEPT ![f] = "deleted"]
  BY DEF RemoveIntent
<1>3. /\ intents' \in [Files -> {"none", "pending", "done"}]
      /\ intents'[f] # "none"
      /\ \A g \in Files : intents[g] # "none" => intents'[g] = intents[g]
      /\ \A g \in Files \ {f} : intents'[g] = intents[g]
  <2>1. intents' = [intents EXCEPT ![f] = IF intents[f] = "none" THEN "pending" ELSE intents[f]]
    BY DEF RemoveIntent, Remember
  <2> QED
    BY <2>1 DEF TypeOK
<1>4. /\ removal' \in [Removers -> RemovalState]
      /\ removal'[p].pc = "intended" /\ removal'[p].file = f
      /\ \A q \in Removers \ {p} : removal'[q] = removal[q]
  BY DEF RemoveIntent, TypeOK, RemovalState
<1>5. TypeOK'
  BY <1>1, <1>2, <1>3, <1>4 DEF TypeOK
<1>6. UploadsInv' /\ IntentsInv'
  BY <1>1, <1>2, <1>3 DEF FilesInv, TypeOK, UploadsInv, IntentsInv
<1>7. RemovalInv'
  BY <1>1, <1>3, <1>4 DEF FilesInv, RemovalInv
<1>8. RecoveryInv'
  BY <1>1, <1>3 DEF FilesInv, RecoveryInv, TypeOK, RecoveryState
<1>9. CleanupInv'
  BY <1>1 DEF FilesInv, CleanupInv
<1>10. UploadKept'
  BY <1>1, <1>2 DEF FilesInv, UploadKept, Downloadable, TypeOK
<1>11. AnsweredErased'
  BY <1>1, <1>2, <1>3 DEF FilesInv, AnsweredErased, TypeOK
<1> QED
  BY <1>5, <1>6, <1>7, <1>8, <1>9, <1>10, <1>11 DEF FilesInv

(* Deleting the object of a recorded deletion, and giving up.                *)
LEMMA RemoveObjectStep ==
    ASSUME FilesInv, NEW p \in Removers, RemoveObject(p)
    PROVE  FilesInv'
<1> TypeOK
  BY DEF FilesInv
<1>1. UNCHANGED <<running, rows, intents, staged, upload, recovery, cleanup, exposed, erased>>
  BY DEF RemoveObject
<1>2. PICK f \in Files : f = removal[p].file /\ intents[f] # "none" /\ removal[p].pc = "intended"
  BY DEF RemoveObject, FilesInv, RemovalInv
<1>3. PICK ok \in BOOLEAN :
        /\ Delete(f, ok)
        /\ removal' = [removal EXCEPT ![p] = IF ok THEN [removal[p] EXCEPT !.pc = "deleted"]
                                                  ELSE NoRemoval]
  BY <1>2 DEF RemoveObject
<1>4. /\ object' \in [Files -> BOOLEAN]
      /\ \A g \in Files \ {f} : object'[g] = object[g]
      /\ \A g \in Files : object'[g] => object[g]
      /\ ok => ~ object'[f]
  BY <1>3, DeleteEffect
<1>5. /\ removal' \in [Removers -> RemovalState]
      /\ removal'[p].pc = IF ok THEN "deleted" ELSE "idle"
      /\ ok => removal'[p].file = f
      /\ \A q \in Removers \ {p} : removal'[q] = removal[q]
  <2>1. removal[p] \in RemovalState
    BY DEF TypeOK
  <2>2. CASE ok
    BY <1>2, <1>3, <2>1, <2>2 DEF TypeOK, RemovalState
  <2>3. CASE ~ ok
    BY <1>3, <2>3 DEF TypeOK, RemovalState, NoRemoval
  <2> QED
    BY <2>2, <2>3
<1>6. TypeOK'
  BY <1>1, <1>4, <1>5 DEF TypeOK
<1>7. /\ UploadsInv' /\ IntentsInv' /\ CleanupInv' /\ UploadKept' /\ AnsweredErased'
      /\ \A g \in Files : ~ object[g] => ~ object'[g]
  BY <1>1, <1>2, <1>4, ErasingKeeps
<1>8. RemovalInv'
  <2>1. RemovalInv
    BY DEF FilesInv
  <2>2. ASSUME NEW q \in Removers \ {p}, removal'[q].pc # "idle"
        PROVE  /\ removal'[q].file \in Files /\ intents'[removal'[q].file] # "none"
               /\ removal'[q].pc = "deleted" => ~ object'[removal'[q].file]
    BY <1>1, <1>5, <1>7, <2>1, <2>2 DEF RemovalInv
  <2>3. removal'[p].pc # "idle" =>
               /\ removal'[p].file \in Files /\ intents'[removal'[p].file] # "none"
               /\ ~ object'[removal'[p].file]
    BY <1>1, <1>2, <1>4, <1>5
  <2> QED
    BY <2>2, <2>3 DEF RemovalInv
<1>9. RecoveryInv'
  BY <1>1, <1>7 DEF FilesInv, RecoveryInv
<1> QED
  BY <1>6, <1>7, <1>8, <1>9 DEF FilesInv

(* Finalizing an intent, by a request or by the recovery.                    *)
LEMMA FinalizeEffect ==
    ASSUME TypeOK, NEW f \in Files, finalizeDeletion(f)
    PROVE  /\ intents' \in [Files -> {"none", "pending", "done"}]
           /\ \A g \in Files : intents'[g] = "none" <=> intents[g] = "none"
           /\ \A g \in Files : intents[g] = "done" => intents'[g] = "done"
           /\ \A g \in Files \ {f} : intents'[g] = intents[g]
           /\ intents[f] # "none" => intents'[f] = "done"
<1>1. intents' = [intents EXCEPT ![f] = IF intents[f] = "pending" THEN "done" ELSE intents[f]]
  BY DEF finalizeDeletion
<1> QED
  BY <1>1 DEF TypeOK

(* A deletion is answered 204 when its intent is done and its object gone.   *)
LEMMA RemoveFinalizeStep ==
    ASSUME FilesInv, NEW p \in Removers, RemoveFinalize(p)
    PROVE  FilesInv'
<1> TypeOK
  BY DEF FilesInv
<1>1. UNCHANGED <<running, rows, object, staged, upload, recovery, cleanup, exposed>>
  BY DEF RemoveFinalize
<1>2. PICK f \in Files : /\ f = removal[p].file /\ intents[f] # "none" /\ ~ object[f]
                        /\ removal[p].pc = "deleted"
  BY DEF RemoveFinalize, FilesInv, RemovalInv
<1>3. /\ intents' \in [Files -> {"none", "pending", "done"}]
      /\ \A g \in Files : intents'[g] = "none" <=> intents[g] = "none"
      /\ \A g \in Files : intents[g] = "done" => intents'[g] = "done"
      /\ erased' \subseteq erased \cup {f}
      /\ f \in erased' => f \in erased \/ intents'[f] = "done"
  <2>1. CASE UNCHANGED <<intents, erased>>
    BY <2>1 DEF TypeOK
  <2>2. CASE finalizeDeletion(f) /\ erased' = erased \cup {f}
    BY <1>2, <2>2, FinalizeEffect
  <2> QED
    BY <1>2, <2>1, <2>2 DEF RemoveFinalize
<1>4. /\ removal' \in [Removers -> RemovalState] /\ removal'[p].pc = "idle"
      /\ \A q \in Removers \ {p} : removal'[q] = removal[q]
  BY DEF RemoveFinalize, TypeOK, RemovalState, NoRemoval
<1>5. TypeOK'
  BY <1>1, <1>3, <1>4 DEF TypeOK
<1>6. UploadsInv' /\ IntentsInv' /\ CleanupInv' /\ UploadKept'
  BY <1>1, <1>3 DEF FilesInv, UploadsInv, IntentsInv, CleanupInv, UploadKept, Downloadable
<1>7. RemovalInv'
  BY <1>1, <1>3, <1>4 DEF FilesInv, RemovalInv
<1>8. RecoveryInv'
  BY <1>1, <1>3 DEF FilesInv, RecoveryInv, TypeOK, RecoveryState
<1>9. AnsweredErased'
  BY <1>1, <1>2, <1>3 DEF FilesInv, AnsweredErased, IntentsInv, TypeOK
<1> QED
  BY <1>5, <1>6, <1>7, <1>8, <1>9 DEF FilesInv

-----------------------------------------------------------------------------
(* Recovery *)

(* The conjuncts that a step of the recovery can disturb, when it leaves      *)
(* rows and objects alone and gives up no intent.                            *)
LEMMA RecoveryOnly ==
    ASSUME FilesInv,
           UNCHANGED <<rows, object, staged, upload, removal, cleanup, exposed, erased>>,
           running' \in {"down", "starting", "serving"},
           intents' \in [Files -> {"none", "pending", "done"}],
           \A f \in Files : intents[f] # "none" => intents'[f] # "none",
           \A f \in Files : intents[f] = "done" => intents'[f] = "done",
           \A f \in Files : intents'[f] # "none" => rows[f] = "deleted",
           recovery' \in RecoveryState, RecoveryInv'
    PROVE  FilesInv'
<1>1. TypeOK'
  BY DEF FilesInv, TypeOK
<1>2. UploadsInv' /\ IntentsInv' /\ CleanupInv' /\ UploadKept'
  BY DEF FilesInv, UploadsInv, IntentsInv, CleanupInv, UploadKept, Downloadable
<1>3. RemovalInv'
  BY DEF FilesInv, RemovalInv
<1>4. AnsweredErased'
  BY DEF FilesInv, AnsweredErased, TypeOK
<1> QED
  BY <1>1, <1>2, <1>3, <1>4 DEF FilesInv

(* The states the recovery moves to. *)
LEMMA RecoveryMoved ==
    ASSUME NEW r \in RecoveryState
    PROVE  /\ \A x \in {"adopt", "select", "next", "finalize"} :
                 /\ [r EXCEPT !.pc = x] \in RecoveryState
                 /\ [r EXCEPT !.pc = x].pc = x
                 /\ [r EXCEPT !.pc = x].targets = r.targets
                 /\ [r EXCEPT !.pc = x].file = r.file
           /\ [r EXCEPT !.pc = "next", !.file = NoFile] \in RecoveryState
           /\ [r EXCEPT !.pc = "next", !.file = NoFile].pc = "next"
           /\ [r EXCEPT !.pc = "next", !.file = NoFile].targets = r.targets
BY DEF RecoveryState

(* An idle recovery has nothing to keep. *)
LEMMA NoRecoveryIdle ==
    /\ NoRecovery \in RecoveryState /\ NoRecovery.pc = "idle" /\ NoRecovery.targets = {}
    /\ [NoRecovery EXCEPT !.pc = "adopt"] \in RecoveryState
    /\ [NoRecovery EXCEPT !.pc = "adopt"].pc = "adopt"
    /\ [NoRecovery EXCEPT !.pc = "adopt"].targets = {}
BY DEF NoRecovery, RecoveryState

(* Every step of the recovery worker keeps the invariant. *)
LEMMA RecoverySteps == FilesInv /\ (Recovery \/ Restart) => FilesInv'
<1> SUFFICES ASSUME FilesInv, Recovery \/ Restart PROVE FilesInv'
  OBVIOUS
<1> TypeOK /\ IntentsInv /\ RecoveryInv
  BY DEF FilesInv
<1> recovery \in RecoveryState /\ recovery.targets \subseteq Files
  BY DEF TypeOK, RecoveryState
<1>0. ASSUME UNCHANGED intents
      PROVE  /\ intents' \in [Files -> {"none", "pending", "done"}]
             /\ \A f \in Files : intents[f] # "none" => intents'[f] # "none"
             /\ \A f \in Files : intents[f] = "done" => intents'[f] = "done"
             /\ \A f \in Files : intents'[f] # "none" => rows[f] = "deleted"
  BY <1>0 DEF TypeOK, IntentsInv
<1>1. ASSUME recovery' = NoRecovery \/ recovery' = [NoRecovery EXCEPT !.pc = "adopt"]
      PROVE  recovery' \in RecoveryState /\ RecoveryInv'
  BY <1>1, NoRecoveryIdle DEF RecoveryInv
<1>2. running' = running \/ Recovered => running' \in {"down", "starting", "serving"}
  BY DEF Recovered, TypeOK
<1>3. CASE Tick
  <2>1. UNCHANGED <<running, store, upload, removal, cleanup, exposed, erased>>
    BY <1>3 DEF Tick
  <2>2. recovery' = [recovery EXCEPT !.pc = "adopt"]
    BY <1>3 DEF Tick
  <2>3. recovery' \in RecoveryState /\ recovery'.pc = "adopt" /\ recovery'.targets = recovery.targets
    BY <2>2, RecoveryMoved
  <2>4. RecoveryInv'
    BY <2>1, <2>3 DEF RecoveryInv, store
  <2> QED
    BY <1>0, <1>2, <2>1, <2>3, <2>4, RecoveryOnly DEF store
<1>4. CASE RecoverAdopt
  <2>1. UNCHANGED <<rows, object, staged, upload, removal, cleanup, exposed, erased>>
    BY <1>4 DEF RecoverAdopt
  <2>2. CASE recovery' = NoRecovery /\ Recovered /\ UNCHANGED intents
    BY <1>0, <1>1, <1>2, <2>1, <2>2, RecoveryOnly
  <2>3. CASE /\ intents' = [f \in Files |-> IF Adoptable(f) THEN "pending" ELSE intents[f]]
             /\ recovery' = [recovery EXCEPT !.pc = "select"] /\ UNCHANGED running
    <3>1. /\ intents' \in [Files -> {"none", "pending", "done"}]
          /\ \A f \in Files : intents[f] # "none" => intents'[f] # "none"
          /\ \A f \in Files : intents[f] = "done" => intents'[f] = "done"
          /\ \A f \in Files : intents'[f] # "none" => rows[f] = "deleted"
      BY <2>3 DEF TypeOK, IntentsInv, Adoptable
    <3>2. recovery' \in RecoveryState /\ recovery'.pc = "select" /\ recovery'.targets = recovery.targets
      BY <2>3, RecoveryMoved
    <3>3. RecoveryInv'
      BY <3>1, <3>2 DEF RecoveryInv
    <3> QED
      BY <1>2, <2>1, <2>3, <3>1, <3>2, <3>3, RecoveryOnly
  <2> QED
    BY <1>4, <2>2, <2>3 DEF RecoverAdopt
<1>5. CASE RecoverSelect
  <2>1. UNCHANGED <<store, upload, removal, cleanup, exposed, erased>>
    BY <1>5 DEF RecoverSelect
  <2>2. CASE recovery' = NoRecovery /\ Recovered
    BY <1>0, <1>1, <1>2, <2>1, <2>2, RecoveryOnly DEF store
  <2> DEFINE T == {f \in Files : intents[f] = "pending" /\ rows[f] \in {"none", "deleted"}}
  <2>3. CASE recovery' = [recovery EXCEPT !.pc = "next", !.targets = T] /\ UNCHANGED running
    <3>0. T \in SUBSET Files /\ \A f \in T : intents[f] # "none"
      OBVIOUS
    <3> HIDE DEF T
    <3>1. recovery' \in RecoveryState /\ recovery'.pc = "next" /\ recovery'.targets = T
      BY <2>3, <3>0 DEF RecoveryState
    <3>2. RecoveryInv'
      BY <2>1, <3>0, <3>1 DEF RecoveryInv, store
    <3> QED
      BY <1>0, <1>2, <2>1, <2>3, <3>1, <3>2, RecoveryOnly DEF store
  <2> QED
    BY <1>5, <2>2, <2>3 DEF RecoverSelect
<1>6. ASSUME NEW f \in Files, RecoverNext(f) PROVE FilesInv'
  <2>1. /\ UNCHANGED <<running, store, upload, removal, cleanup, exposed, erased>>
        /\ f \in recovery.targets /\ recovery.pc = "next"
    BY <1>6 DEF RecoverNext
  <2> DEFINE T == recovery.targets \ {f}
  <2>2. T \in SUBSET Files /\ (\A g \in T : intents[g] # "none") /\ intents[f] # "none"
    BY <2>1 DEF RecoveryInv
  <2>3. \/ recovery' = [recovery EXCEPT !.pc = "delete", !.targets = T, !.file = f]
        \/ recovery' = [recovery EXCEPT !.targets = T]
    BY <1>6 DEF RecoverNext
  <2> HIDE DEF T
  <2>4. /\ recovery' \in RecoveryState /\ recovery'.targets = T
        /\ recovery'.pc = "next" \/ (recovery'.pc = "delete" /\ recovery'.file = f)
    <3>1. CASE recovery' = [recovery EXCEPT !.pc = "delete", !.targets = T, !.file = f]
      BY <2>2, <3>1 DEF RecoveryState
    <3>2. CASE recovery' = [recovery EXCEPT !.targets = T]
      BY <2>1, <2>2, <3>2 DEF RecoveryState
    <3> QED
      BY <2>3, <3>1, <3>2
  <2>5. RecoveryInv'
    BY <2>1, <2>2, <2>4 DEF RecoveryInv, store
  <2> QED
    BY <1>0, <1>2, <2>1, <2>4, <2>5, RecoveryOnly DEF store
<1>7. CASE RecoverDelete
  <2>1. UNCHANGED <<running, rows, intents, staged, upload, removal, cleanup, exposed, erased>>
    BY <1>7 DEF RecoverDelete
  <2>2. PICK f \in Files : f = recovery.file /\ intents[f] # "none"
    BY <1>7 DEF RecoverDelete, RecoveryInv
  <2>3. PICK ok \in BOOLEAN :
          /\ Delete(f, ok)
          /\ recovery' = [recovery EXCEPT !.pc = IF ok THEN "finalize" ELSE "next"]
    BY <1>7, <2>2 DEF RecoverDelete
  <2>4. /\ object' \in [Files -> BOOLEAN]
        /\ \A g \in Files \ {f} : object'[g] = object[g]
        /\ \A g \in Files : object'[g] => object[g]
        /\ ok => ~ object'[f]
    BY <2>3, DeleteEffect
  <2>5. /\ recovery' \in RecoveryState /\ recovery'.targets = recovery.targets
        /\ recovery'.file = f /\ recovery'.pc = IF ok THEN "finalize" ELSE "next"
    <3> DEFINE x == IF ok THEN "finalize" ELSE "next"
    <3>1. x \in {"next", "finalize"} /\ recovery' = [recovery EXCEPT !.pc = x]
      BY <2>3
    <3> HIDE DEF x
    <3>2. /\ recovery' \in RecoveryState /\ recovery'.targets = recovery.targets
          /\ recovery'.file = recovery.file /\ recovery'.pc = x
      BY <3>1 DEF RecoveryState
    <3> QED
      BY <2>2, <3>2 DEF x
  <2>6. TypeOK'
    BY <2>1, <2>4, <2>5 DEF TypeOK
  <2>7. /\ UploadsInv' /\ IntentsInv' /\ CleanupInv' /\ UploadKept' /\ AnsweredErased'
        /\ \A g \in Files : ~ object[g] => ~ object'[g]
    BY <2>1, <2>2, <2>4, ErasingKeeps
  <2>8. RemovalInv'
    BY <2>1, <2>7 DEF FilesInv, RemovalInv
  <2>9. RecoveryInv'
    BY <2>1, <2>2, <2>4, <2>5 DEF RecoveryInv
  <2> QED
    BY <2>6, <2>7, <2>8, <2>9 DEF FilesInv
<1>8. CASE RecoverFinalize
  <2>1. UNCHANGED <<running, rows, object, staged, upload, removal, cleanup, exposed, erased>>
    BY <1>8 DEF RecoverFinalize
  <2>2. PICK f \in Files : f = recovery.file
    BY <1>8 DEF RecoverFinalize, RecoveryInv
  <2>3. /\ intents' \in [Files -> {"none", "pending", "done"}]
        /\ \A g \in Files : intents'[g] = "none" <=> intents[g] = "none"
        /\ \A g \in Files : intents[g] = "done" => intents'[g] = "done"
    <3>1. CASE UNCHANGED intents
      BY <3>1 DEF TypeOK
    <3>2. CASE finalizeDeletion(f)
      BY <3>2, FinalizeEffect
    <3> QED
      BY <1>8, <2>2, <3>1, <3>2 DEF RecoverFinalize
  <2>4. recovery' \in RecoveryState /\ recovery'.pc = "next" /\ recovery'.targets = recovery.targets
    BY <1>8, RecoveryMoved DEF RecoverFinalize
  <2>5. RecoveryInv'
    BY <2>3, <2>4 DEF RecoveryInv
  <2>6. running' \in {"down", "starting", "serving"}
    BY <2>1 DEF TypeOK
  <2> QED
    BY <2>1, <2>3, <2>4, <2>5, <2>6, RecoveryOnly DEF IntentsInv
<1>9. CASE RecoverEnd
  BY <1>0, <1>1, <1>2, <1>9, RecoveryOnly DEF RecoverEnd, store
<1>10. CASE Restart
  BY <1>0, <1>1, <1>10, RecoveryOnly DEF Restart, store
<1> QED
  BY <1>3, <1>4, <1>5, <1>6, <1>7, <1>8, <1>9, <1>10 DEF Recovery

-----------------------------------------------------------------------------
(* Cleanup and crashes *)

(* What a cleanup removes is on no list of keys it could have had. *)
LEMMA CleanupSteps == FilesInv /\ Cleanup => FilesInv'
<1> SUFFICES ASSUME FilesInv, Cleanup PROVE FilesInv'
  OBVIOUS
<1> TypeOK /\ UploadsInv /\ CleanupInv /\ UploadKept
  BY DEF FilesInv
<1> /\ cleanup \in CleanupState /\ cleanup.known \subseteq Files
    /\ cleanup.todo \subseteq Files /\ exposed \subseteq Files
  BY DEF TypeOK, CleanupState
<1>1. CASE CleanupRead
  <2>1. UNCHANGED <<running, store, upload, removal, recovery, erased>>
    BY <1>1 DEF CleanupRead
  <2>2. PICK known \in SUBSET Known :
          /\ cleanup' = [NoCleanup EXCEPT !.pc = "list", !.known = known]
          /\ exposed' = exposed \cup Exposed(known)
    BY <1>1 DEF CleanupRead
  <2>3. known \in SUBSET Files
    BY DEF Known
  <2>4. /\ cleanup' \in CleanupState /\ cleanup'.known = known /\ cleanup'.todo = {}
    BY <2>2, <2>3 DEF NoCleanup, CleanupState
  <2>5. exposed \subseteq exposed' /\ exposed' \subseteq Files
    BY <2>2 DEF Exposed, Known
  <2>6. TypeOK'
    BY <2>1, <2>4, <2>5 DEF TypeOK, store
  <2>7. ASSUME NEW f \in Files, f \notin known, f \notin exposed'
        PROVE  upload[f].pc \in {"new", "refused"}
    <3>1. ~ InFlight(f) /\ rows[f] = "none"
      BY <2>2, <2>7 DEF Exposed, Known
    <3>2. upload[f].pc \in {"new", "reading", "staged", "stored", "unbound", "created", "refused"}
      BY DEF TypeOK, UploadState
    <3> QED
      BY <3>1, <3>2 DEF InFlight, UploadsInv
  <2>8. CleanupInv'
    BY <2>1, <2>4, <2>7 DEF CleanupInv
  <2>9. UploadsInv' /\ UploadKept'
    BY <2>1, <2>5 DEF store, UploadsInv, UploadKept, Downloadable
  <2>10. IntentsInv' /\ RemovalInv' /\ RecoveryInv' /\ AnsweredErased'
    BY <2>1 DEF FilesInv, IntentsInv, RemovalInv, RecoveryInv, AnsweredErased, store
  <2> QED
    BY <2>6, <2>8, <2>9, <2>10 DEF FilesInv
<1>2. CASE CleanupList
  <2>1. UNCHANGED <<running, store, upload, removal, recovery, exposed, erased>>
    BY <1>2 DEF CleanupList
  <2> DEFINE T == {f \in Files : object[f]} \ cleanup.known
  <2>2. T \in SUBSET Files /\ T \cap cleanup.known = {} /\ cleanup.pc = "list"
        /\ cleanup' = [cleanup EXCEPT !.pc = "sweep", !.todo = T]
    BY <1>2 DEF CleanupList
  <2> HIDE DEF T
  <2>3. /\ cleanup' \in CleanupState /\ cleanup'.known = cleanup.known /\ cleanup'.todo = T
    BY <2>2 DEF CleanupState
  <2>4. TypeOK'
    BY <2>1, <2>3 DEF TypeOK, store
  <2>5. CleanupInv'
    BY <2>1, <2>2, <2>3 DEF CleanupInv
  <2>6. UploadsInv' /\ UploadKept' /\ IntentsInv' /\ RemovalInv' /\ RecoveryInv' /\ AnsweredErased'
    BY <2>1 DEF FilesInv, UploadsInv, UploadKept, Downloadable, IntentsInv, RemovalInv, RecoveryInv,
      AnsweredErased, store
  <2> QED
    BY <2>4, <2>5, <2>6 DEF FilesInv
<1>3. ASSUME NEW f \in Files, CleanupRemove(f) PROVE FilesInv'
  <2>1. UNCHANGED <<running, rows, intents, staged, upload, removal, recovery, exposed, erased>>
    BY <1>3 DEF CleanupRemove
  <2> DEFINE T == cleanup.todo \ {f}
  <2>2. /\ cleanup.pc = "sweep" /\ f \in cleanup.todo
        /\ cleanup' = [cleanup EXCEPT !.todo = T] /\ T \in SUBSET Files
    BY <1>3 DEF CleanupRemove
  <2>3. cleanup' \in CleanupState /\ cleanup'.known = cleanup.known /\ cleanup'.todo = T
    <3> HIDE DEF T
    <3> QED
      BY <2>2 DEF CleanupState
  <2>4. PICK ok \in BOOLEAN : Delete(f, ok)
    BY <1>3 DEF CleanupRemove
  <2>5. /\ object' \in [Files -> BOOLEAN]
        /\ \A g \in Files \ {f} : object'[g] = object[g]
        /\ \A g \in Files : object'[g] => object[g]
    BY <2>4, DeleteEffect
  <2>6. f \in exposed \/ upload[f].pc \in {"new", "refused"}
    BY <2>2 DEF CleanupInv
  <2>7. TypeOK'
    BY <2>1, <2>3, <2>5 DEF TypeOK
  <2>8. CleanupInv'
    BY <2>1, <2>2, <2>3 DEF CleanupInv
  <2>9. UploadsInv' /\ UploadKept'
    BY <2>1, <2>5, <2>6 DEF UploadsInv, UploadKept, Downloadable
  <2>10. IntentsInv' /\ RemovalInv' /\ RecoveryInv' /\ AnsweredErased'
    BY <2>1, <2>5 DEF FilesInv, IntentsInv, RemovalInv, RecoveryInv, AnsweredErased, TypeOK
  <2> QED
    BY <2>7, <2>8, <2>9, <2>10 DEF FilesInv
<1>4. CASE CleanupStaging
  <2>1. UNCHANGED <<running, rows, intents, object, upload, removal, recovery, exposed, erased>>
    BY <1>4 DEF CleanupStaging
  <2>2. staged' \in [Files -> BOOLEAN]
    BY <1>4 DEF CleanupStaging, TypeOK
  <2>3. cleanup' \in CleanupState /\ cleanup'.pc = "idle"
    BY <1>4 DEF CleanupStaging, NoCleanup, CleanupState
  <2>4. TypeOK'
    BY <2>1, <2>2, <2>3 DEF TypeOK
  <2>5. CleanupInv'
    BY <2>3 DEF CleanupInv
  <2>6. UploadsInv' /\ UploadKept' /\ IntentsInv' /\ RemovalInv' /\ RecoveryInv' /\ AnsweredErased'
    BY <2>1 DEF FilesInv, UploadsInv, UploadKept, Downloadable, IntentsInv, RemovalInv, RecoveryInv,
      AnsweredErased
  <2> QED
    BY <2>4, <2>5, <2>6 DEF FilesInv
<1> QED
  BY <1>1, <1>2, <1>3, <1>4 DEF Cleanup

(* A crash ends the uploads, whose rows stay as they are, and every worker.   *)
LEMMA CrashStep == FilesInv /\ Crash => FilesInv'
<1> SUFFICES ASSUME FilesInv, Crash PROVE FilesInv'
  OBVIOUS
<1> TypeOK
  BY DEF FilesInv
<1>1. UNCHANGED <<store, exposed, erased>> /\ running' = "down"
  BY DEF Crash
<1>2. ASSUME NEW f \in Files
      PROVE  upload'[f] \in UploadState /\ (upload'[f].pc = "refused" \/
                (upload'[f] = upload[f] /\ ~ InFlight(f)))
  <2>1. CASE InFlight(f)
    BY <2>1 DEF Crash, UploadState
  <2>2. CASE ~ InFlight(f)
    BY <2>2 DEF Crash, TypeOK
  <2> QED
    BY <2>1, <2>2
<1>3. upload' \in [Files -> UploadState]
  BY <1>2 DEF Crash
<1>4. /\ removal' \in [Removers -> RemovalState] /\ \A p \in Removers : removal'[p].pc = "idle"
      /\ recovery' \in RecoveryState /\ recovery'.pc = "idle" /\ recovery'.targets = {}
      /\ cleanup' \in CleanupState /\ cleanup'.pc = "idle"
  BY DEF Crash, NoRemoval, NoRecovery, NoCleanup, RemovalState, RecoveryState, CleanupState
<1>5. TypeOK'
  BY <1>1, <1>3, <1>4 DEF TypeOK, store
<1>6. UploadsInv' /\ UploadKept'
  BY <1>1, <1>2 DEF FilesInv, UploadsInv, UploadKept, Downloadable, store
<1>7. IntentsInv' /\ AnsweredErased'
  BY <1>1 DEF FilesInv, IntentsInv, AnsweredErased, store
<1>8. RemovalInv' /\ RecoveryInv' /\ CleanupInv'
  BY <1>4 DEF RemovalInv, RecoveryInv, CleanupInv
<1> QED
  BY <1>5, <1>6, <1>7, <1>8 DEF FilesInv

(* Every step keeps the invariant. *)
LEMMA NextFilesInv == FilesInv /\ [Next]_vars => FilesInv'
<1> SUFFICES ASSUME FilesInv, [Next]_vars PROVE FilesInv'
  OBVIOUS
<1>1. CASE Removals
  BY <1>1, RemoveIntentStep, RemoveObjectStep, RemoveFinalizeStep DEF Removals
<1>2. CASE UNCHANGED vars
  BY <1>2 DEF vars, store, FilesInv, TypeOK, UploadsInv, UploadKept, Downloadable, IntentsInv,
    RemovalInv, RecoveryInv, CleanupInv, AnsweredErased
<1> QED
  BY <1>1, <1>2, UploadSteps, RecoverySteps, CleanupSteps, CrashStep DEF Next

(* What was answered to a client stands, whatever fails or crashes            *)
(* afterwards: an upload answered 201 can be downloaded until its deletion is *)
(* recorded, unless a cleanup could not know it, and a deletion answered 204  *)
(* left nothing behind (upload, remove, ResumePendingDeletions, cleanup).     *)
THEOREM AnswersStandAlways == Spec => []AnswersStand
<1>1. FilesInv => AnswersStand
  BY DEF FilesInv, AnswersStand
<1> QED
  BY <1>1, InitFilesInv, NextFilesInv, PTL DEF Spec

-----------------------------------------------------------------------------
(* The life of a file *)

StatusMap == [f \in Files |-> Status(f)]

(* A step that takes one file one step on its way, or nowhere, is one of the  *)
(* abstract life's, or a stutter.                                            *)
LEMMA OneMove ==
    ASSUME NEW f \in Files, \A g \in Files \ {f} : Status(g)' = Status(g),
           \/ Status(f)' = Status(f)
           \/ Status(f) = "absent" /\ Status(f)' = "available"
           \/ Status(f) = "available" /\ Status(f)' = "deleting"
           \/ Status(f) = "deleting" /\ Status(f)' = "erased"
    PROVE  [Lifecycle!Next]_StatusMap
<1> DEFINE to == Status(f)'
<1>1. StatusMap' = [StatusMap EXCEPT ![f] = to]
  BY DEF StatusMap
<1>2. StatusMap[f] = Status(f)
  BY DEF StatusMap
<1>3. CASE Status(f)' = Status(f)
  BY <1>1, <1>2, <1>3 DEF StatusMap
<1>4. CASE Status(f)' # Status(f)
  <2>1. Lifecycle!Bind(f) \/ Lifecycle!Delete(f) \/ Lifecycle!Erase(f)
    BY <1>1, <1>2, <1>4 DEF Lifecycle!Bind, Lifecycle!Delete, Lifecycle!Erase, Lifecycle!Moves, StatusMap
  <2> QED
    BY <2>1 DEF Lifecycle!Next
<1> QED
  BY <1>3, <1>4

(* A file whose row, intent and object stay has the status it had. *)
LEMMA SameStatus ==
    ASSUME NEW f, rows'[f] = rows[f], intents'[f] = intents[f], object'[f] = object[f]
    PROVE  Status(f)' = Status(f)
BY DEF Status

(* Deleting an object finishes a deletion, or changes nothing: a file without *)
(* a row and one that is live have no say in their objects.                   *)
LEMMA DeleteMoves ==
    ASSUME TypeOK, NEW f \in Files, NEW ok \in BOOLEAN, Delete(f, ok), UNCHANGED <<rows, intents>>
    PROVE  [Lifecycle!Next]_StatusMap
<1>1. /\ \A g \in Files \ {f} : object'[g] = object[g]
      /\ object'[f] => object[f]
  BY DeleteEffect
<1>2. \A g \in Files \ {f} : Status(g)' = Status(g)
  BY <1>1, SameStatus
<1>3. Status(f)' = Status(f) \/ (Status(f) = "deleting" /\ Status(f)' = "erased")
  <2>1. rows[f] \in {"none", "live", "deleted"} /\ rows'[f] = rows[f] /\ intents'[f] = intents[f]
    BY DEF TypeOK
  <2> QED
    BY <1>1, <2>1 DEF Status
<1> QED
  BY <1>2, <1>3, OneMove

(* So does the end of an intent. *)
LEMMA FinalizeMoves ==
    ASSUME TypeOK, NEW f \in Files, finalizeDeletion(f), UNCHANGED <<rows, object>>
    PROVE  [Lifecycle!Next]_StatusMap
<1>1. /\ \A g \in Files \ {f} : intents'[g] = intents[g]
      /\ intents[f] # "none" => intents'[f] = "done"
      /\ intents'[f] = "none" <=> intents[f] = "none"
  BY FinalizeEffect
<1>2. \A g \in Files \ {f} : Status(g)' = Status(g)
  BY <1>1, SameStatus
<1>3. Status(f)' = Status(f) \/ (Status(f) = "deleting" /\ Status(f)' = "erased")
  <2>1. rows[f] \in {"none", "live", "deleted"} /\ rows'[f] = rows[f] /\ object'[f] = object[f]
    BY DEF TypeOK
  <2> QED
    BY <1>1, <2>1 DEF Status
<1> QED
  BY <1>2, <1>3, OneMove

(* A step that leaves rows, intents and objects alone is a stutter. *)
LEMMA StoreStutters ==
    ASSUME UNCHANGED <<rows, intents, object>>
    PROVE  [Lifecycle!Next]_StatusMap
BY SameStatus DEF StatusMap

(* Every step is a step of the abstract life of one file, or a stutter. *)
LEMMA NextLifecycle == FilesInv /\ [Next]_vars => [Lifecycle!Next]_StatusMap
<1> SUFFICES ASSUME FilesInv, [Next]_vars PROVE [Lifecycle!Next]_StatusMap
  OBVIOUS
<1> TypeOK
  BY DEF FilesInv
<1>1. CASE Uploads
  <2>1. PICK f \in Files :
          UploadRead(f) \/ UploadStage(f) \/ UploadPut(f) \/ UploadInsert(f) \/ UploadUndo(f)
    BY <1>1 DEF Uploads
  <2>2. /\ UNCHANGED intents
        /\ \A g \in Files \ {f} : rows'[g] = rows[g] /\ object'[g] = object[g]
        /\ \/ UNCHANGED <<rows, object>>
           \/ upload[f].pc = "staged" /\ UNCHANGED rows
           \/ upload[f].pc = "stored" /\ UNCHANGED object /\ rows'[f] \in {"none", "live"}
           \/ upload[f].pc = "unbound" /\ UNCHANGED rows /\ (object'[f] => object[f])
    BY <2>1, UploadEffect
  <2>3. \A g \in Files \ {f} : Status(g)' = Status(g)
    BY <2>2, SameStatus
  <2>4. upload[f].pc \in {"staged", "stored"} => rows[f] = "none"
    BY DEF FilesInv, UploadsInv
  <2>5. \/ Status(f)' = Status(f)
        \/ Status(f) = "absent" /\ Status(f)' = "available"
        \/ Status(f) = "deleting" /\ Status(f)' = "erased"
    <3>1. rows[f] \in {"none", "live", "deleted"} /\ intents'[f] = intents[f]
      BY <2>2 DEF TypeOK
    <3> QED
      BY <2>2, <2>4, <3>1 DEF Status
  <2> QED
    BY <2>3, <2>5, OneMove
<1>2. ASSUME NEW p \in Removers, NEW f \in Files, RemoveIntent(p, f) PROVE [Lifecycle!Next]_StatusMap
  <2>1. /\ UNCHANGED object /\ rows[f] \in {"live", "deleted"} /\ rows'[f] = "deleted"
        /\ \A g \in Files \ {f} : rows'[g] = rows[g]
    BY <1>2 DEF RemoveIntent, TypeOK
  <2>2. /\ \A g \in Files \ {f} : intents'[g] = intents[g]
        /\ intents'[f] = IF intents[f] = "none" THEN "pending" ELSE intents[f]
    BY <1>2 DEF RemoveIntent, Remember, TypeOK
  <2>3. rows[f] = "live" => intents[f] = "none"
    BY DEF FilesInv, IntentsInv
  <2>4. \A g \in Files \ {f} : Status(g)' = Status(g)
    BY <2>1, <2>2, SameStatus
  <2>5. Status(f)' = Status(f) \/ (Status(f) = "available" /\ Status(f)' = "deleting")
    BY <2>1, <2>2, <2>3 DEF Status
  <2> QED
    BY <2>4, <2>5, OneMove
<1>3. ASSUME NEW p \in Removers, RemoveObject(p) PROVE [Lifecycle!Next]_StatusMap
  <2>1. removal[p].file \in Files
    BY <1>3 DEF RemoveObject, FilesInv, RemovalInv
  <2> QED
    BY <1>3, <2>1, DeleteMoves DEF RemoveObject
<1>4. ASSUME NEW p \in Removers, RemoveFinalize(p) PROVE [Lifecycle!Next]_StatusMap
  <2>1. removal[p].file \in Files
    BY <1>4 DEF RemoveFinalize, FilesInv, RemovalInv
  <2> QED
    BY <1>4, <2>1, FinalizeMoves, StoreStutters DEF RemoveFinalize
<1>5. CASE RecoverAdopt
  <2>1. ASSUME NEW f \in Files PROVE Status(f)' = Status(f)
    BY <1>5 DEF RecoverAdopt, Adoptable, Status
  <2> QED
    BY <2>1 DEF StatusMap
<1>6. CASE RecoverDelete
  <2>1. recovery.file \in Files
    BY <1>6 DEF RecoverDelete, FilesInv, RecoveryInv
  <2> QED
    BY <1>6, <2>1, DeleteMoves DEF RecoverDelete
<1>7. CASE RecoverFinalize
  <2>1. recovery.file \in Files
    BY <1>7 DEF RecoverFinalize, FilesInv, RecoveryInv
  <2> QED
    BY <1>7, <2>1, FinalizeMoves, StoreStutters DEF RecoverFinalize
<1>8. ASSUME NEW f \in Files, CleanupRemove(f) PROVE [Lifecycle!Next]_StatusMap
  BY <1>8, DeleteMoves DEF CleanupRemove
<1>9. ASSUME Tick \/ RecoverSelect \/ RecoverEnd \/ (\E f \in Files : RecoverNext(f))
      PROVE  [Lifecycle!Next]_StatusMap
  BY <1>9, StoreStutters DEF Tick, RecoverSelect, RecoverEnd, RecoverNext, store
<1>10. ASSUME CleanupRead \/ CleanupList \/ CleanupStaging \/ Crash \/ Restart \/ UNCHANGED vars
       PROVE  [Lifecycle!Next]_StatusMap
  BY <1>10, StoreStutters DEF CleanupRead, CleanupList, CleanupStaging, Crash, Restart, vars, store
<1> QED
  BY <1>1, <1>2, <1>3, <1>4, <1>5, <1>6, <1>7, <1>8, <1>9, <1>10
    DEF Next, Removals, Recovery, Cleanup

(* The store implements the promised life of a file: no step of a request, of *)
(* the recovery, of a cleanup or of a crash takes a file anywhere but from     *)
(* absent to available to deleting to erased.                                  *)
THEOREM ImplementsLifecycle == Spec => Lifecycle!Safety
<1>1. Init => Lifecycle!Init
  BY DEF Init, Lifecycle!Init, Status
<1>2. FilesInv /\ [Next]_vars => [Lifecycle!Next]_[f \in Files |-> Status(f)]
  BY NextLifecycle DEF StatusMap
<1> QED
  BY <1>1, <1>2, InitFilesInv, NextFilesInv, PTL DEF Spec, Lifecycle!Safety

-----------------------------------------------------------------------------
(* The quota *)

(* The uploads that may still insert a row. *)
Coming == {f \in Files : upload[f].pc \in {"reading", "staged", "stored"}}

Bound == Quota + (MaxParallel - 1) * MaxUpload

(* The rows that are there, and MaxUpload for every upload to come but f,     *)
(* which counts for what it read or for its own size.                         *)
Charged(f) ==
    IF upload[f].pc = "reading"
    THEN /\ upload[f].used < Quota
         /\ Used + (Cardinality(Coming) - 1) * MaxUpload
               <= upload[f].used + (MaxParallel - 1) * MaxUpload
    ELSE Used + (Cardinality(Coming) - 1) * MaxUpload + Size[f] <= Bound

QuotaInv ==
    \/ Coming = {} /\ Used <= SumOfSizes(Restored)
    \/ Used + Cardinality(Coming) * MaxUpload <= Bound
    \/ \E f \in Coming : Charged(f)

(* More files are no smaller. *)
LEMMA SumMonotone ==
    ASSUME NEW S \in SUBSET Files, NEW T \in SUBSET S
    PROVE  SumOfSizes(T) <= SumOfSizes(S)
<1> DEFINE A == {U \in SUBSET Files : \A V \in SUBSET U : SumOfSizes(V) <= SumOfSizes(U)}
<1>1. ASSUME NEW U \in SUBSET Files, \A W \in (SUBSET U) \ {U} : W \in A PROVE U \in A
  <2> SUFFICES ASSUME NEW V \in SUBSET U PROVE SumOfSizes(V) <= SumOfSizes(U)
    OBVIOUS
  <2>0. SumOfSizes(V) \in Nat /\ SumOfSizes(U) \in Nat
    BY SumFacts
  <2>1. CASE V = U
    BY <2>0, <2>1
  <2>2. CASE V # U
    <3>1. PICK f \in U : f \notin V
      BY <2>2
    <3>2. V \in SUBSET (U \ {f}) /\ U \ {f} \in (SUBSET U) \ {U}
      BY <3>1
    <3>3. SumOfSizes(V) <= SumOfSizes(U \ {f})
      BY <1>1, <3>2
    <3>4. /\ SumOfSizes(U) = Size[f] + SumOfSizes(U \ {f})
          /\ Size[f] \in Nat /\ SumOfSizes(U \ {f}) \in Nat
      BY SumFacts, FilesAssumption
    <3> QED
      BY <2>0, <3>3, <3>4
  <2> QED
    BY <2>1, <2>2
<1>2. A = SUBSET Files
  <2> HIDE DEF A
  <2>1. A \in SUBSET (SUBSET Files)
    BY DEF A
  <2> QED
    BY <1>1, <2>1, FilesAssumption, SubsetInduction
<1> QED
  BY <1>2

(* One upload more or less counts MaxUpload. *)
LEMMA Times ==
    ASSUME NEW n \in Nat
    PROVE  /\ n * MaxUpload \in Nat /\ (n - 1) * MaxUpload \in Int
           /\ n * MaxUpload = (n - 1) * MaxUpload + MaxUpload
           /\ n # 0 => (n - 1) * MaxUpload \in Nat
           /\ (n - 1) * MaxUpload = (n - 2) * MaxUpload + MaxUpload
           /\ (n - 2) * MaxUpload \in Int
           /\ 0 * MaxUpload = 0
<1>1. MaxUpload \in Nat
  BY FilesAssumption
<1> QED
  BY <1>1

(* The numbers the quota is about. *)
LEMMA QuotaTypes ==
    ASSUME TypeOK
    PROVE  /\ Used \in Nat /\ IsFiniteSet(Coming) /\ Cardinality(Coming) \in Nat
           /\ Coming # {} <=> Cardinality(Coming) # 0
           /\ Coming \in SUBSET Files
           /\ \A f \in Files : Size[f] \in Nat /\ Size[f] <= MaxUpload /\ upload[f].used \in Nat
           /\ MaxUpload \in Nat /\ Quota \in Nat /\ MaxParallel \in Nat
           /\ (MaxParallel - 1) * MaxUpload \in Int /\ Bound \in Int
           /\ Bound = Quota + (MaxParallel - 1) * MaxUpload
<1>1. Coming \in SUBSET Files
  BY DEF Coming
<1>2. IsFiniteSet(Coming) /\ Cardinality(Coming) \in Nat /\ (Coming # {} <=> Cardinality(Coming) # 0)
  BY <1>1, FilesAssumption, FS_Subset, FS_CardinalityType, FS_EmptySet
<1>3. \A f \in Files : Size[f] \in Nat /\ Size[f] <= MaxUpload /\ upload[f].used \in Nat
  BY FilesAssumption DEF TypeOK, UploadState
<1>4. MaxUpload \in Nat /\ Quota \in Nat /\ MaxParallel \in Nat
  BY FilesAssumption
<1>5. (MaxParallel - 1) * MaxUpload \in Int
  BY <1>4, Times
<1> QED
  BY <1>1, <1>2, <1>3, <1>4, <1>5, UsedSum DEF Bound

(* The bound the run checks. *)
LEMMA QuotaInvImplies == FilesInv /\ QuotaInv => QuotaOvershootBounded
<1> SUFFICES ASSUME FilesInv, QuotaInv PROVE QuotaOvershootBounded
  OBVIOUS
<1> DEFINE c == Cardinality(Coming)
           w == c * MaxUpload
           v == (c - 1) * MaxUpload
           m == (MaxParallel - 1) * MaxUpload
<1> TypeOK
  BY DEF FilesInv
<1>1. CASE Coming = {} /\ Used <= SumOfSizes(Restored)
  BY <1>1 DEF QuotaOvershootBounded
<1>2. c \in Nat /\ w \in Nat /\ m \in Int
  BY QuotaTypes, Times
<1>3. CASE Used + w <= Bound
  <2> HIDE DEF w, m
  <2> QED
    BY <1>2, <1>3, QuotaTypes DEF QuotaOvershootBounded, Bound, m
<1>4. ASSUME NEW f \in Coming, Charged(f) PROVE QuotaOvershootBounded
  <2>1. v \in Nat
    BY <1>2, QuotaTypes, Times
  <2>2. \/ upload[f].used < Quota /\ Used + v <= upload[f].used + m
        \/ Used + v + Size[f] <= Quota + m
    BY <1>4 DEF Charged, Bound
  <2>3. Size[f] \in Nat /\ upload[f].used \in Nat /\ Used \in Nat /\ Quota \in Nat
    BY QuotaTypes
  <2> HIDE DEF v, m
  <2>4. Used <= Quota + m
    BY <1>2, <2>1, <2>2, <2>3
  <2> QED
    BY <2>4 DEF QuotaOvershootBounded, m
<1> QED
  BY <1>1, <1>3, <1>4 DEF QuotaInv

(* What a step does to the sum: nothing if the live files stay, and if one     *)
(* file gets a row, its size.                                                  *)
LEMMA UsedMoves ==
    /\ Used' \in Nat
    /\ Live' \subseteq Live => Used' <= Used
    /\ \A f \in Files : Live' \subseteq Live \cup {f} => Used' <= Used + Size[f]
<1>1. Used' = SumOfSizes(Live') /\ Used = SumOfSizes(Live)
  BY DEF Used, Live
<1>2. Live' \in SUBSET Files /\ Live \in SUBSET Files
  BY DEF Live
<1>3. Used' \in Nat /\ Used \in Nat
  BY <1>1, <1>2, SumFacts
<1>4. ASSUME Live' \subseteq Live PROVE Used' <= Used
  BY <1>1, <1>2, <1>4, SumMonotone
<1>5. ASSUME NEW f \in Files, Live' \subseteq Live \cup {f} PROVE Used' <= Used + Size[f]
  <2>0. Size[f] \in Nat
    BY FilesAssumption
  <2>1. CASE f \in Live
    BY <1>3, <1>4, <1>5, <2>0, <2>1
  <2>2. CASE f \notin Live
    <3>1. Live \cup {f} \in SUBSET Files /\ (Live \cup {f}) \ {f} = Live
      BY <1>2, <2>2
    <3>2. SumOfSizes(Live \cup {f}) = Size[f] + SumOfSizes(Live)
      BY <3>1, SumFacts
    <3>3. SumOfSizes(Live') <= SumOfSizes(Live \cup {f})
      BY <1>5, <3>1, SumMonotone
    <3> QED
      BY <1>1, <1>3, <2>0, <3>2, <3>3
  <2> QED
    BY <2>1, <2>2
<1> QED
  BY <1>3, <1>4, <1>5

(* Uploads that go on, beside deletions, or that are staged within the quota.  *)
LEMMA QuotaStays ==
    ASSUME TypeOK, TypeOK', QuotaInv, Coming' = Coming, Used' <= Used,
           \A f \in Coming :
              \/ upload'[f] = upload[f]
              \/ upload[f].pc = "reading" /\ WithinQuota(f) /\ upload'[f].pc # "reading"
              \/ upload[f].pc # "reading" /\ upload'[f].pc # "reading"
    PROVE  QuotaInv'
<1> DEFINE c == Cardinality(Coming)
           w == c * MaxUpload
           v == (c - 1) * MaxUpload
           m == (MaxParallel - 1) * MaxUpload
<1>1. /\ c \in Nat /\ w \in Nat /\ v \in Int /\ m \in Int /\ Used \in Nat /\ Used' \in Nat
      /\ Bound \in Int /\ Bound = Quota + m /\ Quota \in Nat
  BY QuotaTypes, Times, UsedMoves
<1>2. Cardinality(Coming)' = c
  OBVIOUS
<1>3. CASE Coming = {} /\ Used <= SumOfSizes(Restored)
  <2>1. SumOfSizes(Restored) \in Nat
    BY SumFacts, FilesAssumption
  <2> QED
    BY <1>1, <1>3, <2>1 DEF QuotaInv
<1>4. CASE Used + w <= Bound
  <2>1. Used' + Cardinality(Coming)' * MaxUpload <= Bound
    <3> HIDE DEF w
    <3> QED
      BY <1>1, <1>2, <1>4 DEF w
  <2> QED
    BY <2>1 DEF QuotaInv, Bound
<1>5. ASSUME NEW f \in Coming, Charged(f) PROVE QuotaInv'
  <2>1. f \in Files /\ Size[f] \in Nat /\ upload[f].used \in Nat
    BY QuotaTypes
  <2>2. CASE upload'[f].pc = "reading"
    <3>1. upload'[f] = upload[f]
      BY <2>2
    <3>2. upload[f].used < Quota /\ Used + v <= upload[f].used + m
      BY <1>5, <2>2, <3>1 DEF Charged
    <3>3. Used' + v <= upload[f].used + m
      <4> HIDE DEF v, m
      <4> QED
        BY <1>1, <2>1, <3>2
    <3>4. Charged(f)'
      BY <1>2, <2>2, <3>1, <3>2, <3>3 DEF Charged
    <3> QED
      BY <3>4 DEF QuotaInv
  <2>3. CASE upload'[f].pc # "reading"
    <3>1. Used + v + Size[f] <= Quota + m
      <4>1. CASE upload[f].pc = "reading"
        <5>1. upload[f].used + Size[f] <= Quota /\ Used + v <= upload[f].used + m
          BY <1>5, <2>3, <4>1 DEF Charged, WithinQuota
        <5> HIDE DEF v, m
        <5> QED
          BY <1>1, <2>1, <5>1
      <4>2. CASE upload[f].pc # "reading"
        BY <1>5, <4>2 DEF Charged, Bound
      <4> QED
        BY <4>1, <4>2
    <3>2. Used' + v + Size[f] <= Quota + m
      <4> HIDE DEF v, m
      <4> QED
        BY <1>1, <2>1, <3>1
    <3>3. Charged(f)'
      BY <1>2, <2>3, <3>2 DEF Charged, Bound
    <3> QED
      BY <3>3 DEF QuotaInv
  <2> QED
    BY <2>2, <2>3
<1> QED
  BY <1>3, <1>4, <1>5 DEF QuotaInv

(* An upload that ends, with a row or without. *)
LEMMA QuotaLeaves ==
    ASSUME TypeOK, TypeOK', QuotaInv, NEW f \in Coming, Coming' = Coming \ {f},
           Used' <= Used \/ (upload[f].pc # "reading" /\ Used' <= Used + Size[f]),
           \A g \in Coming' : upload'[g] = upload[g]
    PROVE  QuotaInv'
<1> DEFINE c == Cardinality(Coming)
           w == c * MaxUpload
           v == (c - 1) * MaxUpload
           u == (c - 2) * MaxUpload
           m == (MaxParallel - 1) * MaxUpload
<1>1. /\ c \in Nat /\ w \in Nat /\ v \in Int /\ m \in Int /\ Used \in Nat /\ Used' \in Nat
      /\ Bound \in Int /\ Bound = Quota + m /\ Quota \in Nat /\ MaxUpload \in Nat
      /\ w = v + MaxUpload /\ v = u + MaxUpload /\ u \in Int
      /\ f \in Files /\ Size[f] \in Nat /\ Size[f] <= MaxUpload /\ upload[f].used \in Nat
  BY QuotaTypes, Times, UsedMoves
<1>2. Cardinality(Coming)' = c - 1
  BY QuotaTypes, FS_RemoveElement
<1>3. ASSUME Used' + v <= Bound PROVE QuotaInv'
  <2>1. Used' + Cardinality(Coming)' * MaxUpload <= Bound
    BY <1>2, <1>3
  <2> QED
    BY <2>1 DEF QuotaInv, Bound
<1>4. CASE Used + w <= Bound
  <2>1. Used' + v <= Bound
    <3> HIDE DEF w, v, u, m
    <3> QED
      BY <1>1, <1>4
  <2> QED
    BY <1>3, <2>1
<1>5. CASE Charged(f)
  <2>1. Used' + v <= Bound
    <3>1. CASE upload[f].pc = "reading"
      <4>1. upload[f].used < Quota /\ Used + v <= upload[f].used + m /\ Used' <= Used
        BY <1>5, <3>1 DEF Charged
      <4>2. \A x, y, z, q, k, n \in Int : x <= y /\ y + z <= k + n /\ k < q => x + z <= q + n
        OBVIOUS
      <4>3. v \in Int /\ m \in Int /\ Used \in Int /\ Used' \in Int /\ Quota \in Int
            /\ upload[f].used \in Int /\ Bound = Quota + m
        BY <1>1
      <4> HIDE DEF w, v, u, m
      <4> QED
        BY <4>1, <4>2, <4>3
    <3>2. CASE upload[f].pc # "reading"
      <4>1. Used + v + Size[f] <= Bound
        BY <1>5, <3>2 DEF Charged
      <4>2. \A x, y, z, k, n \in Int : x <= y + k /\ y + z + k <= n => x + z <= n
        OBVIOUS
      <4>3. /\ v \in Int /\ Used \in Int /\ Used' \in Int /\ Size[f] \in Int /\ Bound \in Int
            /\ Used' <= Used + Size[f]
        BY <1>1
      <4> HIDE DEF w, v, u, m
      <4> QED
        BY <4>1, <4>2, <4>3
    <3> QED
      BY <3>1, <3>2
  <2> QED
    BY <1>3, <2>1
<1>6. ASSUME NEW g \in Coming \ {f}, Charged(g) PROVE QuotaInv'
  <2>1. /\ g \in Coming' /\ upload'[g] = upload[g] /\ Size[g] \in Nat /\ upload[g].used \in Nat
        /\ (Cardinality(Coming)' - 1) * MaxUpload = u
    <3>1. (c - 1) - 1 = c - 2
      BY <1>1
    <3> QED
      BY <1>2, <3>1, QuotaTypes
  <2>2. CASE upload[g].pc = "reading"
    <3>1. upload[g].used < Quota /\ Used + v <= upload[g].used + m
      BY <1>6, <2>2 DEF Charged
    <3>2. Used' + u <= upload[g].used + m
      <4> HIDE DEF w, v, u, m
      <4> QED
        BY <1>1, <2>1, <3>1
    <3>3. Charged(g)'
      BY <2>1, <2>2, <3>1, <3>2 DEF Charged
    <3> QED
      BY <2>1, <3>3 DEF QuotaInv
  <2>3. CASE upload[g].pc # "reading"
    <3>1. Used + v + Size[g] <= Bound
      BY <1>6, <2>3 DEF Charged
    <3>2. Used' + u + Size[g] <= Bound
      <4> HIDE DEF w, v, u, m
      <4> QED
        BY <1>1, <2>1, <3>1
    <3>3. Charged(g)'
      BY <2>1, <2>3, <3>2 DEF Charged, Bound
    <3> QED
      BY <2>1, <3>3 DEF QuotaInv
  <2> QED
    BY <2>2, <2>3
<1> QED
  BY <1>4, <1>5, <1>6 DEF QuotaInv

(* An upload that begins has read less than the quota, beside at most          *)
(* MaxParallel - 1 others.                                                     *)
LEMMA QuotaEnters ==
    ASSUME TypeOK, TypeOK', NEW f \in Files, Coming' = Coming \cup {f}, f \notin Coming,
           Cardinality(Coming) < MaxParallel, Used' = Used, Used < Quota,
           upload'[f].pc = "reading", upload'[f].used = Used
    PROVE  QuotaInv'
<1> DEFINE c == Cardinality(Coming)
<1>1. c \in Nat /\ Used \in Nat /\ MaxParallel \in Nat /\ MaxUpload \in Nat
  BY QuotaTypes
<1>2. Cardinality(Coming)' = c + 1
  BY QuotaTypes, FS_AddElement
<1>3. (Cardinality(Coming)' - 1) * MaxUpload <= (MaxParallel - 1) * MaxUpload
  <2>1. Cardinality(Coming)' - 1 = c
    BY <1>1, <1>2
  <2>2. \A n, k, m \in Nat : n < k => n * m <= (k - 1) * m
    <3> SUFFICES ASSUME NEW n \in Nat, NEW k \in Nat, NEW m \in Nat, n < k
                 PROVE  n * m <= (k - 1) * m
      OBVIOUS
    <3>1. (k - 1) - n \in Nat
      OBVIOUS
    <3>2. ((k - 1) - n) * m \in Nat
      BY <3>1
    <3>3. ((k - 1) - n) * m = (k - 1) * m - n * m
      OBVIOUS
    <3>4. (k - 1) * m \in Int /\ n * m \in Int
      OBVIOUS
    <3> QED
      BY <3>2, <3>3, <3>4
  <2> QED
    BY <1>1, <2>1, <2>2
<1>4. Charged(f)'
  <2> DEFINE l == (Cardinality(Coming)' - 1) * MaxUpload
             m == (MaxParallel - 1) * MaxUpload
  <2>1. l \in Int /\ m \in Int
    BY <1>1, <1>2, QuotaTypes, Times
  <2>2. Used' + l <= upload'[f].used + m
    <3> HIDE DEF l, m
    <3>1. l <= m
      BY <1>3 DEF l, m
    <3> QED
      BY <1>1, <2>1, <3>1
  <2> QED
    BY <2>2 DEF Charged
<1> QED
  BY <1>4 DEF QuotaInv

(* The end of every upload leaves the rows that were there. *)
LEMMA QuotaEnds ==
    ASSUME FilesInv, QuotaInv, Coming' = {}, Used' = Used
    PROVE  QuotaInv'
<1>1. Used <= Bound \/ Used <= SumOfSizes(Restored)
  BY QuotaInvImplies DEF QuotaOvershootBounded, Bound
<1>2. Cardinality(Coming)' = 0
  BY FS_EmptySet
<1>3. Used' + Cardinality(Coming)' * MaxUpload = Used
  BY <1>2, UsedSum, Times
<1> QED
  BY <1>1, <1>3 DEF QuotaInv, Bound

(* A step that leaves the uploads alone and adds no row. *)
LEMMA QuotaAside ==
    ASSUME TypeOK, TypeOK', QuotaInv, UNCHANGED upload,
           \A f \in Files : rows'[f] = "live" => rows[f] = "live"
    PROVE  QuotaInv'
<1>1. Coming' = Coming /\ Live' \subseteq Live
  BY DEF Coming, Live
<1> QED
  BY <1>1, UsedMoves, QuotaStays

(* Initially no upload is under way and only restored files are live. *)
LEMMA InitQuotaInv == Init => QuotaInv
<1> SUFFICES ASSUME Init PROVE QuotaInv
  OBVIOUS
<1>1. ASSUME NEW f \in Files PROVE f \notin Coming
  BY DEF Init, Coming, NoUpload
<1>2. Coming = {}
  BY <1>1 DEF Coming
<1>3. Live \in SUBSET Restored
  BY DEF Init, Live
<1>4. Used <= SumOfSizes(Restored)
  BY <1>3, UsedSum, SumMonotone, FilesAssumption
<1> QED
  BY <1>2, <1>4 DEF QuotaInv

(* The uploads that may still come are among those in flight, whose number   *)
(* is bounded where an upload begins.                                        *)
LEMMA ComingInFlight ==
    ASSUME TypeOK
    PROVE  /\ Cardinality({g \in Files : InFlight(g)}) \in Nat
           /\ Cardinality(Coming) <= Cardinality({g \in Files : InFlight(g)})
<1>1. {g \in Files : InFlight(g)} \in SUBSET Files /\ Coming \in SUBSET {g \in Files : InFlight(g)}
  BY DEF Coming, InFlight
<1> QED
  BY <1>1, FilesAssumption, FS_Subset, FS_CardinalityType

(* Every step keeps the account. *)
LEMMA NextQuotaInv == FilesInv /\ FilesInv' /\ QuotaInv /\ [Next]_vars => QuotaInv'
<1> SUFFICES ASSUME FilesInv, FilesInv', QuotaInv, [Next]_vars PROVE QuotaInv'
  OBVIOUS
<1> TypeOK /\ TypeOK'
  BY DEF FilesInv
<1>1. ASSUME NEW f \in Files, UploadRead(f) PROVE QuotaInv'
  <2>1. /\ upload[f].pc = "new" /\ UNCHANGED rows
        /\ Cardinality({g \in Files : InFlight(g)}) < MaxParallel
        /\ upload' = [upload EXCEPT ![f] = IF Used >= Quota THEN [pc |-> "refused", used |-> 0]
                                                           ELSE [pc |-> "reading", used |-> Used]]
    BY <1>1 DEF UploadRead, store
  <2>2. f \notin Coming /\ Live' = Live
    BY <2>1 DEF Coming, Live
  <2>3. Used' = Used
    BY <2>1 DEF Used
  <2>4. \A g \in Files \ {f} : upload'[g] = upload[g]
    BY <2>1 DEF TypeOK
  <2>5. CASE Used >= Quota
    <3>1. upload'[f].pc = "refused"
      BY <2>1, <2>5 DEF TypeOK
    <3>2. Coming' = Coming
      BY <2>2, <2>4, <3>1 DEF Coming
    <3>3. \A g \in Coming : upload'[g] = upload[g]
      BY <2>2, <2>4 DEF Coming
    <3> QED
      BY <2>2, <3>2, <3>3, UsedMoves, QuotaStays
  <2>6. CASE ~(Used >= Quota)
    <3>1. upload'[f].pc = "reading" /\ upload'[f].used = Used
      BY <2>1, <2>6 DEF TypeOK
    <3>2. Coming' = Coming \cup {f}
      BY <2>4, <3>1 DEF Coming
    <3>3. Cardinality(Coming) < MaxParallel /\ Used < Quota
      BY <2>1, <2>6, ComingInFlight, QuotaTypes
    <3> QED
      BY <2>2, <2>3, <3>1, <3>2, <3>3, QuotaEnters
  <2> QED
    BY <2>5, <2>6
<1>2. ASSUME NEW f \in Files, UploadStage(f) PROVE QuotaInv'
  <2>1. upload[f].pc = "reading" /\ UNCHANGED rows /\ f \in Coming
    BY <1>2 DEF UploadStage, Coming
  <2>2. \A g \in Files \ {f} : upload'[g] = upload[g]
    BY <1>2, UploadEffect
  <2>3. Used' = Used /\ Used \in Nat
    BY <2>1, UsedSum DEF Used
  <2>4. CASE upload'[f].pc = "staged"
    <3>1. WithinQuota(f)
      BY <1>2, <2>4 DEF UploadStage, TypeOK
    <3>2. Coming' = Coming
      BY <2>1, <2>2, <2>4 DEF Coming
    <3>3. \A g \in Coming : upload'[g] = upload[g] \/ g = f
      BY <2>2 DEF Coming
    <3> QED
      BY <2>1, <2>3, <2>4, <3>1, <3>2, <3>3, QuotaStays
  <2>5. CASE upload'[f].pc = "refused"
    <3>1. Coming' = Coming \ {f}
      BY <2>2, <2>5 DEF Coming
    <3>2. \A g \in Coming' : upload'[g] = upload[g]
      BY <2>2, <3>1 DEF Coming
    <3> QED
      BY <2>1, <2>3, <3>1, <3>2, QuotaLeaves
  <2> QED
    BY <1>2, <2>1, <2>4, <2>5, UploadEffect
<1>3. ASSUME NEW f \in Files, UploadPut(f) \/ UploadInsert(f) \/ UploadUndo(f) PROVE QuotaInv'
  <2>1. /\ \A g \in Files \ {f} : upload'[g] = upload[g] /\ rows'[g] = rows[g]
        /\ \/ upload[f].pc = "staged" /\ upload'[f].pc \in {"stored", "refused"} /\ UNCHANGED rows
           \/ upload[f].pc = "stored" /\ upload'[f].pc \in {"created", "unbound"}
           \/ upload[f].pc = "unbound" /\ upload'[f].pc = "refused" /\ UNCHANGED rows
    <3>1. upload[f].pc \in {"staged", "stored", "unbound"}
      BY <1>3 DEF UploadPut, UploadInsert, UploadUndo
    <3> QED
      BY <1>3, <3>1, UploadEffect
  <2>2. Live' \subseteq Live \cup {f} /\ (UNCHANGED rows => Live' \subseteq Live)
    BY <2>1 DEF Live
  <2>3. CASE upload[f].pc = "staged" /\ upload'[f].pc = "stored"
    <3>1. Coming' = Coming
      BY <2>1, <2>3 DEF Coming
    <3>2. \A g \in Coming : upload'[g] = upload[g] \/ g = f
      BY <2>1 DEF Coming
    <3> QED
      BY <2>1, <2>2, <2>3, <3>1, <3>2, UsedMoves, QuotaStays
  <2>4. CASE upload[f].pc \in {"staged", "stored"} /\ upload'[f].pc # "stored"
    <3>1. Coming' = Coming \ {f} /\ f \in Coming
      BY <2>1, <2>4 DEF Coming
    <3>2. \A g \in Coming' : upload'[g] = upload[g]
      BY <2>1, <3>1 DEF Coming
    <3>3. Used' <= Used + Size[f]
      BY <2>2, UsedMoves
    <3> QED
      BY <2>4, <3>1, <3>2, <3>3, QuotaLeaves
  <2>5. CASE upload[f].pc = "unbound"
    <3>1. Coming' = Coming /\ f \notin Coming
      BY <2>1, <2>5 DEF Coming
    <3>2. \A g \in Coming : upload'[g] = upload[g]
      BY <2>1, <3>1 DEF Coming
    <3> QED
      BY <2>1, <2>2, <2>5, <3>1, <3>2, UsedMoves, QuotaStays
  <2> QED
    BY <2>1, <2>3, <2>4, <2>5
<1>4. CASE Removals
  <2>1. UNCHANGED upload /\ \A f \in Files : rows'[f] = "live" => rows[f] = "live"
    BY <1>4 DEF Removals, RemoveIntent, RemoveObject, RemoveFinalize, TypeOK
  <2> QED
    BY <2>1, QuotaAside
<1>5. CASE Recovery \/ Restart
  <2>1. UNCHANGED <<upload, rows>>
    BY <1>5 DEF Recovery, Restart, Tick, RecoverAdopt, RecoverSelect, RecoverNext, RecoverDelete,
      RecoverFinalize, RecoverEnd, store
  <2> QED
    BY <2>1, QuotaAside
<1>6. CASE Cleanup \/ UNCHANGED vars
  <2>1. UNCHANGED <<upload, rows>>
    BY <1>6 DEF Cleanup, CleanupRead, CleanupList, CleanupStaging, CleanupRemove, vars, store
  <2> QED
    BY <2>1, QuotaAside
<1>7. CASE Crash
  <2>1. UNCHANGED rows
    BY <1>7 DEF Crash, store
  <2>2. ASSUME NEW f \in Files PROVE f \notin Coming'
    BY <1>7 DEF Crash, Coming, InFlight
  <2>3. Coming' = {}
    BY <2>2 DEF Coming
  <2>4. Used' = Used
    BY <2>1 DEF Used
  <2> QED
    BY <2>3, <2>4, QuotaEnds
<1> QED
  BY <1>1, <1>2, <1>3, <1>4, <1>5, <1>6, <1>7 DEF Next, Uploads

(* Concurrent uploads exceed the quota by no more than one upload for each of *)
(* the others in flight, although each compares its size with a sum that may  *)
(* be out of date (upload), unless restored files did already.                *)
THEOREM QuotaOvershootBoundedAlways == Spec => []QuotaOvershootBounded
BY InitFilesInv, NextFilesInv, InitQuotaInv, NextQuotaInv, QuotaInvImplies, PTL DEF Spec
=============================================================================
