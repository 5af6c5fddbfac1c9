--------------------------------- MODULE Cache ---------------------------------
(***************************************************************************)
(* The directory a driver loads files from into its harness                *)
(* (harness/cache): an entry named by the digest of its content, which     *)
(* this session's Open and a session of another process fill.              *)
(*                                                                         *)
(* The root is the user's own, so nothing else writes there, but a crash   *)
(* may have left the entry damaged.  Each writer stages its copy in a      *)
(* directory of its own, and one that fails stops where it is.             *)
(***************************************************************************)

VARIABLE cache  \* the entry, where each writer is in Dir, and whether the other one
                \* found the entry damaged; Unfollowed while Open is elsewhere

Writers == {"mine", "theirs"}
Entry == {"none", "damaged", "whole"}
DirPC == {"idle", "stat", "digest", "remove", "removing", "write", "rename", "done"}

Unfollowed == [entry |-> "none", mine |-> "idle", theirs |-> "idle", spoilt |-> FALSE]
Holding(e) == [Unfollowed EXCEPT !.entry = e]

Go(w, p) == cache' = [cache EXCEPT ![w] = p]
Leave(w, p, e) == cache' = [cache EXCEPT ![w] = p, !.entry = e]

(* FS, with the digest of what it is to keep, and the checks of the root.  *)
FS(w) == cache[w] = "idle" /\ Go(w, "stat")

Stat(w) ==
    /\ cache[w] = "stat"
    /\ Go(w, IF cache.entry = "none" THEN "write" ELSE "digest")

(* Mutant: a directory of the right name will do. *)
Named(e) == e # "none"
(* The content has the digest it is named by.                              *)
TreeDigest(e) == e = "whole"

Digest(w) ==
    /\ cache[w] = "digest"
    /\ LET good == TreeDigest(cache.entry) IN
       cache' = [cache EXCEPT ![w] = IF good THEN "done" ELSE "remove",
                              !.spoilt = @ \/ (w = "theirs" /\ ~good)]

(* RemoveAll takes one file after the other.                               *)
RemoveAll(w) ==
    \/ /\ cache[w] = "remove"
       /\ Leave(w, "removing", IF cache.entry = "none" THEN "none" ELSE "damaged")
    \/ /\ cache[w] = "removing"
       /\ Leave(w, "write", "none")

(* Mutant: the copy is written in its place. *)
StagedInPlace == "damaged"
(* The copy is written beside the entry.                                   *)
Staged == cache.entry

Write(w) == cache[w] = "write" /\ Leave(w, "rename", Staged)

(* A rename over what another writer left fails, and leaves that.          *)
Renamed == IF cache.entry = "none" THEN "whole" ELSE cache.entry

Rename(w) == cache[w] = "rename" /\ Leave(w, "done", Renamed)

Dir(w) == Stat(w) \/ Digest(w) \/ RemoveAll(w) \/ Write(w) \/ Rename(w)
=============================================================================
