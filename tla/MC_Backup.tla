------------------------------ MODULE MC_Backup ------------------------------
(* Two servers and two operators on one deployment. *)
EXTENDS Backup, TLC

CONSTANTS s1, s2, o1, o2, r1, r2

BothDatabases == {"source", "target"}
AllProcs      == {s1, s2, o1, o2}
NewContent    == Empty

(* Another deployment, before and after its first record. *)
OtherContent  == [Empty EXCEPT !.owners = {"elsewhere"}]
OtherBundle   == [version |-> Current, policy |-> "closed", admin |-> "roled", content |-> OtherContent,
                  notice |-> FALSE]
OtherBundles  == {OtherBundle, [OtherBundle EXCEPT !.policy = "open", !.content.rows = {r2}]}

(* Stories told apart: two servers that open the source; one that makes     *)
(* backups; three imports, of this deployment's bundle or another's, and no *)
(* server.  S3 is the storage of the PostgreSQL deployment, local that of   *)
(* the SQLite one.                                                          *)
Visited  == {task[p].bundle : p \in Operators} \cup {i.bundle : i \in imports}
OneStory == /\ storage = IF provider["source"] = "sqlite" THEN "local" ELSE "s3"
            /\ Visited \cap Foreign # {} =>
                  /\ \A p \in Servers : open[p] = Closed
                  /\ archives = {} /\ ops <= 3
            /\ making # NoBackup \/ archives # {} => Cardinality({p \in Servers : open[p] # Closed}) <= 1

Interchangeable == Permutations({s1, s2}) \cup Permutations({o1, o2})
=============================================================================
