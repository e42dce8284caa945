------------------------------ MODULE JobBoard ------------------------------
(***************************************************************************)
(* What the deployment queue promises, with nothing of how it is done: a   *)
(* board of jobs, each belonging to one app.  Workers take waiting jobs,   *)
(* one at a time per app, and either finish them or give them back for     *)
(* another try.  A job is tried at most MaxAttempts times and its outcome  *)
(* never changes.  There are no clocks, goroutines, statements or crashes  *)
(* here: a worker that dies simply never finishes what it took.            *)
(***************************************************************************)
EXTENDS Integers

CONSTANTS
  Jobs,         (* the jobs that may ever be posted                    *)
  GroupOf,      (* the app each job belongs to                         *)
  MaxAttempts   (* how often a job may be taken                        *)

VARIABLE board  (* the posted jobs: their status and how often taken   *)

States == {"absent", "waiting", "taken", "succeeded", "failed"}

BoardTypeOK == board \in [Jobs -> [status : States, tries : 0..MaxAttempts]]

GroupIsFree(j) ==
  \A k \in Jobs \ {j} : GroupOf[k] = GroupOf[j] => board[k].status # "taken"

BoardInit == board = [j \in Jobs |-> [status |-> "absent", tries |-> 0]]

Submit(j) ==
  /\ board[j].status = "absent"
  /\ board' = [board EXCEPT ![j].status = "waiting"]

Take(j) ==
  /\ board[j].status = "waiting"
  /\ board[j].tries < MaxAttempts
  /\ GroupIsFree(j)
  /\ board' = [board EXCEPT ![j] = [status |-> "taken", tries |-> @.tries + 1]]

(* Only a job with a try left goes back: a waiting job can always be taken *)
(* again.                                                                  *)
GiveBack(j) ==
  /\ board[j].status = "taken"
  /\ board[j].tries < MaxAttempts
  /\ board' = [board EXCEPT ![j].status = "waiting"]

Finish(j, outcome) ==
  /\ board[j].status = "taken"
  /\ board' = [board EXCEPT ![j].status = outcome]

BoardNext ==
  \E j \in Jobs :
    \/ Submit(j)
    \/ Take(j)
    \/ GiveBack(j)
    \/ \E outcome \in {"succeeded", "failed"} : Finish(j, outcome)

BoardSpec == BoardInit /\ [][BoardNext]_board
=============================================================================
