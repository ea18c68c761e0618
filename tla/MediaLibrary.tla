---------------------------- MODULE MediaLibrary ----------------------------
(***************************************************************************)
(* What MediaService promises of a media id, without rows, files or        *)
(* uploads: it stands for nothing, or for one photo of one user, which is  *)
(* whole from the start.  The owner may take it away; only the wiping of   *)
(* the server's own disk loses it; nothing ever makes it another photo.    *)
(***************************************************************************)
CONSTANTS MediaIds, Users, Photos

VARIABLE library

Drivers == {"local", "s3"}

\* What an entry's bytes are: none yet, "whole" (they can be served), or "lost".
Nothing == [bytes |-> "none"]
Whole == [bytes : {"whole"}, state : {"live"}, owner : Users, photo : Photos, driver : Drivers]

Init == library = [m \in MediaIds |-> Nothing]

Add(m) ==
  /\ library[m] = Nothing
  /\ library'[m] \in Whole
  /\ library' = [library EXCEPT ![m] = library'[m]]

TakeAway(m) ==
  /\ library[m] # Nothing
  /\ library' = [library EXCEPT ![m].state = "deleted"]

\* The server's disk comes back empty.
Wipe ==
  library' = [m \in MediaIds |->
                IF library[m] # Nothing /\ library[m].driver = "local"
                THEN [library[m] EXCEPT !.bytes = "lost"]
                ELSE library[m]]

Next == Wipe \/ \E m \in MediaIds : Add(m) \/ TakeAway(m)

Spec == Init /\ [][Next]_library

=============================================================================
