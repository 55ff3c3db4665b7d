------------------------------ MODULE FileStore ------------------------------
(***************************************************************************)
(* Uploaded files (internal/files): their rows, the objects in the local   *)
(* directory or the S3 bucket, the durable deletion intents and the worker *)
(* that resumes them, and the administrator's cleanup of orphans.  The     *)
(* process can crash between any two of these steps.                       *)
(*                                                                         *)
(* An upload draws a new id and a new storage key, so a file stands for    *)
(* both, and for the request that uploads it.  Names, types, digests and   *)
(* authorization are left out.  The two databases and the two storage      *)
(* backends differ only in which failures they have: the model has all.    *)
(***************************************************************************)
EXTENDS Integers, FiniteSets, FiniteSetsExt

CONSTANTS Files,        \* the files
          Restored,     \* those whose rows came with a restored archive
          NoFile,       \* no file
          Removers,     \* deletions served at the same time
          Size,         \* the size of each file
          MaxUpload,    \* the limit on one upload
          Quota,        \* the limit on all files
          MaxParallel,  \* bound on uploads in flight
          MaxRemovals,  \* bound on deletion requests
          MaxCleanups,  \* bound on cleanup requests
          MaxFaults     \* bound on crashes and failures

ASSUME FilesAssumption ==
    /\ Restored \subseteq Files /\ NoFile \notin Files /\ IsFiniteSet(Files)
    /\ Size \in [Files -> 1 .. MaxUpload]
    /\ {MaxUpload, Quota, MaxParallel, MaxRemovals, MaxCleanups, MaxFaults} \subseteq Nat

VARIABLES
    running,  \* "down", "starting" (recovery before the first request) or "serving"
    rows,     \* _trestle_files: "none", "live" or "deleted"
    intents,  \* _trestle_file_deletions: "none", "pending" or "done"
    object,   \* whether storage holds the file's object
    staged,   \* whether .staging holds its bytes
    upload,   \* [pc, used] of the request that uploads it
    removal,  \* [pc, file] of each deletion request
    recovery, \* [pc, targets, file] of the one recovery worker
    cleanup,  \* [pc, known, todo] of the cleanup request
    exposed,  \* auxiliary: files the cleanup cannot know of, see Exposed
    erased,   \* auxiliary: files whose deletion was answered 204
    removals, cleanups, faults

store   == <<rows, intents, object, staged>>
budgets == <<removals, cleanups, faults>>
vars    == <<running, store, upload, removal, recovery, cleanup, exposed, erased, budgets>>

NoUpload   == [pc |-> "new", used |-> 0]
NoRemoval  == [pc |-> "idle", file |-> NoFile]
NoRecovery == [pc |-> "idle", targets |-> {}, file |-> NoFile]
NoCleanup  == [pc |-> "idle", known |-> {}, todo |-> {}]

InFlight(f) == upload[f].pc \in {"reading", "staged", "stored", "unbound"}
SumOfSizes(S) == MapThenSumSet(LAMBDA f : Size[f], S)
Used        == SumOfSizes({f \in Files : rows[f] = "live"})
Serving     == running = "serving"
Fault       == faults < MaxFaults /\ faults' = faults + 1
NoFault     == UNCHANGED faults

(* A restored row may be marked deleted with no intent: archives carry the *)
(* rows and not the intents; its object may still be in the bucket.        *)
Init ==
    /\ running = "down"
    /\ rows \in [Files -> {"none", "live", "deleted"}]
    /\ \A f \in Files : (f \in Restored) = (rows[f] # "none")
    /\ object = [f \in Files |-> f \in Restored]
    /\ intents = [f \in Files |-> "none"]
    /\ staged = [f \in Files |-> FALSE]
    /\ upload = [f \in Files |-> IF f \in Restored THEN [NoUpload EXCEPT !.pc = "created"] ELSE NoUpload]
    /\ removal = [p \in Removers |-> NoRemoval]
    /\ recovery = NoRecovery
    /\ cleanup = NoCleanup
    /\ exposed = {} /\ erased = {}
    /\ removals = 0 /\ cleanups = 0 /\ faults = 0

-----------------------------------------------------------------------------
(* upload: the quota is read first and not again.                          *)
UploadRead(f) ==
    /\ Serving /\ upload[f].pc = "new"
    /\ Cardinality({g \in Files : InFlight(g)}) < MaxParallel
    /\ upload' = [upload EXCEPT ![f] = IF Used >= Quota THEN [pc |-> "refused", used |-> 0]
                                                       ELSE [pc |-> "reading", used |-> Used]]
    /\ exposed' = IF cleanup.pc = "idle" THEN exposed ELSE exposed \cup {f}
    /\ UNCHANGED <<running, store, removal, recovery, cleanup, erased, budgets>>

AnySize(f) == TRUE

WithinQuota(f) == upload[f].used + Size[f] <= Quota

UploadStage(f) ==
    /\ upload[f].pc = "reading"
    /\ \/ /\ WithinQuota(f) /\ NoFault
          /\ staged' = [staged EXCEPT ![f] = TRUE]
          /\ upload' = [upload EXCEPT ![f] = [pc |-> "staged", used |-> 0]]
       \/ /\ IF WithinQuota(f) THEN Fault ELSE NoFault
          /\ upload' = [upload EXCEPT ![f] = [pc |-> "refused", used |-> 0]]
          /\ UNCHANGED staged
    /\ UNCHANGED <<running, rows, intents, object, removal, recovery, cleanup, exposed, erased,
                   removals, cleanups>>

(* storage.Put: a rename, or an S3 request and the removal of the staged   *)
(* file.  A request that is reported as failed may have stored the object. *)
UploadPut(f) ==
    /\ upload[f].pc = "staged"
    /\ staged' = [staged EXCEPT ![f] = FALSE]
    /\ \/ /\ NoFault
          /\ object' = [object EXCEPT ![f] = TRUE]
          /\ upload' = [upload EXCEPT ![f].pc = "stored"]
       \/ /\ Fault
          /\ \E stored \in BOOLEAN : object' = [object EXCEPT ![f] = stored]
          /\ upload' = [upload EXCEPT ![f].pc = "refused"]
    /\ UNCHANGED <<running, rows, intents, removal, recovery, cleanup, exposed, erased,
                   removals, cleanups>>

(* A failed INSERT may have taken effect: the answer of PostgreSQL's       *)
(* commit can be lost with the connection.                                 *)
UploadInsert(f) ==
    /\ upload[f].pc = "stored"
    /\ \/ /\ NoFault
          /\ rows' = [rows EXCEPT ![f] = "live"]
          /\ upload' = [upload EXCEPT ![f].pc = "created"]
       \/ /\ Fault
          /\ \E row \in {"none", "live"} : rows' = [rows EXCEPT ![f] = row]
          /\ upload' = [upload EXCEPT ![f].pc = "unbound"]
    /\ UNCHANGED <<running, intents, object, staged, removal, recovery, cleanup, exposed, erased,
                   removals, cleanups>>

UploadUndo(f) ==
    /\ upload[f].pc = "unbound"
    /\ upload' = [upload EXCEPT ![f].pc = "refused"]
    /\ \/ NoFault /\ object' = [object EXCEPT ![f] = FALSE]
       \/ Fault /\ UNCHANGED object
    /\ UNCHANGED <<running, rows, intents, staged, removal, recovery, cleanup, exposed, erased,
                   removals, cleanups>>

-----------------------------------------------------------------------------
(* remove: the intent and the mark in one transaction, then the object,    *)
(* then the end of the intent.  A row marked deleted can be deleted again. *)
Remember(f) == intents' = [intents EXCEPT ![f] = IF @ = "none" THEN "pending" ELSE @]

RemoveIntent(p, f) ==
    /\ Serving /\ removal[p].pc = "idle" /\ rows[f] # "none"
    /\ removals < MaxRemovals /\ removals' = removals + 1
    /\ Remember(f)
    /\ rows' = [rows EXCEPT ![f] = "deleted"]
    /\ removal' = [removal EXCEPT ![p] = [pc |-> "intended", file |-> f]]
    /\ UNCHANGED <<running, object, staged, upload, recovery, cleanup, exposed, erased,
                   cleanups, faults>>

(* storage.Delete: a missing object is no error, and S3 may have deleted   *)
(* one that it reports as not deleted.                                     *)
Delete(f, ok) ==
    IF ok THEN NoFault /\ object' = [object EXCEPT ![f] = FALSE]
          ELSE Fault /\ \E left \in BOOLEAN : object' = [object EXCEPT ![f] = @ /\ left]

RemoveIgnoringErrors(p) ==
    /\ removal[p].pc = "intended"
    /\ \E ok \in BOOLEAN :
          /\ Delete(removal[p].file, ok)
          /\ removal' = [removal EXCEPT ![p].pc = "deleted"]
    /\ UNCHANGED <<running, rows, intents, staged, upload, recovery, cleanup, exposed, erased,
                   removals, cleanups>>

RemoveObject(p) ==
    /\ removal[p].pc = "intended"
    /\ \E ok \in BOOLEAN :
          /\ Delete(removal[p].file, ok)
          /\ removal' = [removal EXCEPT ![p] = IF ok THEN [@ EXCEPT !.pc = "deleted"] ELSE NoRemoval]
    /\ UNCHANGED <<running, rows, intents, staged, upload, recovery, cleanup, exposed, erased,
                   removals, cleanups>>

finalizeDeletion(f) == intents' = [intents EXCEPT ![f] = IF @ = "pending" THEN "done" ELSE @]

RemoveFinalize(p) ==
    /\ removal[p].pc = "deleted"
    /\ \/ NoFault /\ finalizeDeletion(removal[p].file) /\ erased' = erased \cup {removal[p].file}
       \/ Fault /\ UNCHANGED <<intents, erased>>
    /\ removal' = [removal EXCEPT ![p] = NoRemoval]
    /\ UNCHANGED <<running, rows, object, staged, upload, recovery, cleanup, exposed,
                   removals, cleanups>>

-----------------------------------------------------------------------------
(* ResumePendingDeletions, at start-up before the server listens and then  *)
(* at every tick of RunDeletionRecovery.                                   *)
Recovered == running' = IF running = "starting" THEN "serving" ELSE running

Tick ==
    /\ Serving /\ recovery.pc = "idle"
    /\ recovery' = [recovery EXCEPT !.pc = "adopt"]
    /\ UNCHANGED <<running, store, upload, removal, cleanup, exposed, erased, budgets>>

AdoptsNothing(f) == FALSE

Adoptable(f) == rows[f] = "deleted" /\ intents[f] = "none"

RecoverAdopt ==
    /\ recovery.pc = "adopt"
    /\ \/ /\ NoFault
          /\ intents' = [f \in Files |-> IF Adoptable(f) THEN "pending" ELSE intents[f]]
          /\ recovery' = [recovery EXCEPT !.pc = "select"] /\ UNCHANGED running
       \/ Fault /\ recovery' = NoRecovery /\ Recovered /\ UNCHANGED intents
    /\ UNCHANGED <<rows, object, staged, upload, removal, cleanup, exposed, erased, removals, cleanups>>

RecoverSelect ==
    /\ recovery.pc = "select"
    /\ \/ /\ NoFault
          /\ recovery' = [recovery EXCEPT !.pc = "next",
                 !.targets = {f \in Files : intents[f] = "pending" /\ rows[f] \in {"none", "deleted"}}]
          /\ UNCHANGED running
       \/ Fault /\ recovery' = NoRecovery /\ Recovered
    /\ UNCHANGED <<store, upload, removal, cleanup, exposed, erased, removals, cleanups>>

(* Each target in turn, unless its key is still in use. *)
RecoverNext(f) ==
    /\ recovery.pc = "next" /\ f \in recovery.targets
    /\ \/ /\ rows[f] # "live" /\ NoFault
          /\ recovery' = [recovery EXCEPT !.pc = "delete", !.targets = @ \ {f}, !.file = f]
       \/ /\ IF rows[f] = "live" THEN NoFault ELSE Fault
          /\ recovery' = [recovery EXCEPT !.targets = @ \ {f}]
    /\ UNCHANGED <<running, store, upload, removal, cleanup, exposed, erased, removals, cleanups>>

RecoverDelete ==
    /\ recovery.pc = "delete"
    /\ \E ok \in BOOLEAN :
          /\ Delete(recovery.file, ok)
          /\ recovery' = [recovery EXCEPT !.pc = IF ok THEN "finalize" ELSE "next"]
    /\ UNCHANGED <<running, rows, intents, staged, upload, removal, cleanup, exposed, erased,
                   removals, cleanups>>

RecoverFinalize ==
    /\ recovery.pc = "finalize"
    /\ \/ NoFault /\ finalizeDeletion(recovery.file)
       \/ Fault /\ UNCHANGED intents
    /\ recovery' = [recovery EXCEPT !.pc = "next", !.file = NoFile]
    /\ UNCHANGED <<running, rows, object, staged, upload, removal, cleanup, exposed, erased,
                   removals, cleanups>>

RecoverEnd ==
    /\ recovery.pc = "next" /\ recovery.targets = {}
    /\ recovery' = NoRecovery /\ Recovered
    /\ UNCHANGED <<store, upload, removal, cleanup, exposed, erased, budgets>>

-----------------------------------------------------------------------------
(* cleanup: the keys of all rows, then the objects of storage that are not *)
(* among them, one by one, then the old files of the staging directory.    *)
(* An error while the rows are read cuts the list short and goes unseen.   *)
Known == {f \in Files : rows[f] # "none"}

(* What a list of keys cannot protect: files whose upload was under way    *)
(* when it was read, and files left out of a list that was cut short.      *)
Exposed(known) == {f \in Files : InFlight(f)} \cup (Known \ known)

CleanupRead ==
    /\ Serving /\ cleanup.pc = "idle"
    /\ cleanups < MaxCleanups /\ cleanups' = cleanups + 1
    /\ \E known \in SUBSET Known :
          /\ IF known = Known THEN NoFault ELSE Fault
          /\ cleanup' = [NoCleanup EXCEPT !.pc = "list", !.known = known]
          /\ exposed' = exposed \cup Exposed(known)
    /\ UNCHANGED <<running, store, upload, removal, recovery, erased, removals>>

CleanupList ==
    /\ cleanup.pc = "list"
    /\ cleanup' = [cleanup EXCEPT !.pc = "sweep",
                                  !.todo = {f \in Files : object[f]} \ cleanup.known]
    /\ UNCHANGED <<running, store, upload, removal, recovery, exposed, erased, budgets>>

CleanupRemove(f) ==
    /\ cleanup.pc = "sweep" /\ f \in cleanup.todo
    /\ cleanup' = [cleanup EXCEPT !.todo = @ \ {f}]
    /\ \E ok \in BOOLEAN : Delete(f, ok)
    /\ UNCHANGED <<running, rows, intents, staged, upload, removal, recovery, exposed, erased,
                   removals, cleanups>>

(* The staging files of uploads that ended without removing them, once     *)
(* they are an hour old.                                                   *)
CleanupStaging ==
    /\ cleanup.pc = "sweep" /\ cleanup.todo = {}
    /\ \E old \in {{}, {f \in Files : ~ InFlight(f)}} :
          staged' = [f \in Files |-> staged[f] /\ f \notin old]
    /\ cleanup' = NoCleanup
    /\ UNCHANGED <<running, rows, intents, object, upload, removal, recovery, exposed, erased, budgets>>

-----------------------------------------------------------------------------
(* A crash ends every request where it stands. *)
Crash ==
    /\ running # "down" /\ Fault
    /\ running' = "down"
    /\ upload' = [f \in Files |-> IF InFlight(f) THEN [pc |-> "refused", used |-> 0] ELSE upload[f]]
    /\ removal' = [p \in Removers |-> NoRemoval]
    /\ recovery' = NoRecovery
    /\ cleanup' = NoCleanup
    /\ UNCHANGED <<store, exposed, erased, removals, cleanups>>

Restart ==
    /\ running = "down"
    /\ running' = "starting"
    /\ recovery' = [NoRecovery EXCEPT !.pc = "adopt"]
    /\ UNCHANGED <<store, upload, removal, cleanup, exposed, erased, budgets>>

Uploads  == \E f \in Files : \/ UploadRead(f) \/ UploadStage(f) \/ UploadPut(f)
                             \/ UploadInsert(f) \/ UploadUndo(f)
Removals == \E p \in Removers : \/ \E f \in Files : RemoveIntent(p, f)
                                \/ RemoveObject(p) \/ RemoveFinalize(p)
Recovery == \/ Tick \/ RecoverAdopt \/ RecoverSelect \/ RecoverDelete \/ RecoverFinalize
            \/ RecoverEnd \/ \E f \in Files : RecoverNext(f)
Cleanup  == CleanupRead \/ CleanupList \/ CleanupStaging \/ \E f \in Files : CleanupRemove(f)

Next == Uploads \/ Removals \/ Recovery \/ Cleanup \/ Crash \/ Restart

(* The recovery goroutine is scheduled and its ticker fires; the service   *)
(* manager restarts a failed process (Restart=on-failure).  Nothing is     *)
(* assumed of requests.                                                    *)
Spec == Init /\ [][Next]_vars /\ WF_vars(Recovery) /\ WF_vars(Restart)

-----------------------------------------------------------------------------
UploadState   == [pc : {"new", "reading", "staged", "stored", "unbound", "created", "refused"},
                  used : Nat]
RemovalState  == [pc : {"idle", "intended", "deleted"}, file : Files \cup {NoFile}]
RecoveryState == [pc : {"idle", "adopt", "select", "next", "delete", "finalize"},
                  targets : SUBSET Files, file : Files \cup {NoFile}]
CleanupState  == [pc : {"idle", "list", "sweep"}, known : SUBSET Files, todo : SUBSET Files]

TypeOK ==
    /\ running \in {"down", "starting", "serving"}
    /\ rows \in [Files -> {"none", "live", "deleted"}]
    /\ intents \in [Files -> {"none", "pending", "done"}]
    /\ object \in [Files -> BOOLEAN] /\ staged \in [Files -> BOOLEAN]
    /\ upload \in [Files -> UploadState]
    /\ removal \in [Removers -> RemovalState]
    /\ recovery \in RecoveryState
    /\ cleanup \in CleanupState
    /\ exposed \subseteq Files /\ erased \subseteq Files

(* A download finds its file: lookup returns a live row and Serve its      *)
(* object.                                                                 *)
Downloadable(f) == rows[f] = "live" /\ object[f]

(* An upload answered 201 stays downloadable until its deletion is         *)
(* recorded, through crashes, failures, recovery and cleanups: the one     *)
(* exception is a cleanup that could not know the file, because the upload *)
(* ran beside it or its list of keys was cut short.                        *)
UploadKept ==
    \A f \in Files : rows[f] = "live" /\ upload[f].pc = "created" /\ f \notin exposed
                        => Downloadable(f)

(* A deletion answered 204 left nothing behind and nothing to do, and no   *)
(* later step of any request brings the file back.                         *)
AnsweredErased == \A f \in erased : rows[f] = "deleted" /\ intents[f] = "done" /\ ~ object[f]

(* What was answered stands: a file that was created can be downloaded and *)
(* one that was deleted is gone, whatever fails or crashes afterwards.     *)
AnswersStand == TypeOK /\ UploadKept /\ AnsweredErased

(* Uploads check the quota against a sum they read before they were        *)
(* staged: together they can exceed it, by no more than one upload for     *)
(* each of the others in flight, unless a restored archive did already.    *)
QuotaOvershootBounded ==
    \/ Used <= Quota + (MaxParallel - 1) * MaxUpload
    \/ Used <= SumOfSizes(Restored)

(* What a file's rows and object say of it. *)
Status(f) ==
    CASE rows[f] = "none" -> "absent"
      [] rows[f] = "live" -> "available"
      [] rows[f] = "deleted" /\ (object[f] \/ intents[f] # "done") -> "deleting"
      [] OTHER -> "erased"

Lifecycle == INSTANCE FileLifecycle WITH status <- [f \in Files |-> Status(f)]

(* The store implements the promised life of a file: no step of any        *)
(* request, of the recovery or of a crash takes a file anywhere but from   *)
(* absent to available to deleting to erased, and a deletion that was      *)
(* recorded is carried out, whatever was answered to the request that      *)
(* asked for it.                                                           *)
FilesLive == Lifecycle!Spec
=============================================================================
