-------------------------- MODULE RecordingArchive --------------------------
(***************************************************************************)
(* What the transcriber promises about a recording, without saying how:    *)
(* it is seen once in the monitored directory, leaves it once - filed,     *)
(* removed as too short, or taken away by somebody else - and gets at most *)
(* one entry in the database, which it keeps, after it has left.           *)
(* Transcriber.tla implements it across sweeps, crashes and restarts.      *)
(***************************************************************************)
CONSTANTS Recordings, Entries, NoEntry

VARIABLES place,  \* where each recording is
          entry   \* its entry in the database, or NoEntry

vars == <<place, entry>>

Left == {"filed", "removed", "gone"}

Init == /\ place = [r \in Recordings |-> "absent"]
        /\ entry = [r \in Recordings |-> NoEntry]

Appear(r) ==
  /\ place[r] = "absent"
  /\ place' = [place EXCEPT ![r] = "top"]
  /\ UNCHANGED entry

Leave(r) ==
  /\ place[r] = "top"
  /\ \E p \in Left : place' = [place EXCEPT ![r] = p]
  /\ UNCHANGED entry

Enter(r) ==
  /\ place[r] \in Left
  /\ entry[r] = NoEntry
  /\ \E e \in Entries : entry' = [entry EXCEPT ![r] = e]
  /\ UNCHANGED place

Next == \E r \in Recordings : Appear(r) \/ Leave(r) \/ Enter(r)

Spec == Init /\ [][Next]_vars
=============================================================================
