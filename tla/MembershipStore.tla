-------------------------- MODULE MembershipStore --------------------------
(* What the membership files of a team promise to those who use them under the  *)
(* barrier: a call changes all the files it names or none; one that succeeds    *)
(* has changed them; while it runs, and after it has failed or its process has   *)
(* died, the files are those from before it or those it asked for, never a       *)
(* mixture.                                                                    *)
CONSTANTS Files, Contents

VARIABLES
  content,    \* what each file says
  call,       \* the call that runs, with the contents before and after it
  answer      \* how the last call ended

States == [Files -> Contents]
NoCall == [open |-> FALSE, before |-> <<>>, after |-> <<>>]

StoreInit ==
  /\ content \in States
  /\ call = NoCall
  /\ answer = "none"

Begin ==
  /\ ~call.open
  /\ call' \in [open : {TRUE}, before : {content}, after : States]
  /\ answer' = "none"
  /\ UNCHANGED content

(* Until it ends the call may take effect, and take it back.                     *)
Waver ==
  /\ call.open
  /\ content' \in {call.before, call.after}
  /\ UNCHANGED <<call, answer>>

Succeed ==
  /\ call.open /\ content' = call.after
  /\ call' = NoCall
  /\ answer' = "ok"

Fail ==
  /\ call.open /\ content' \in {call.before, call.after}
  /\ call' = NoCall
  /\ answer' = "error"

(* The process dies, and nobody is answered.                                     *)
Die ==
  /\ call' = NoCall
  /\ answer' = "none"
  /\ UNCHANGED content

(* The caller goes on with the answer.                                           *)
Hear == ~call.open /\ answer' = "none" /\ UNCHANGED <<content, call>>

(* One file is written, and that is the whole call.                              *)
Write(f, v) ==
  /\ ~call.open
  /\ content' = [content EXCEPT ![f] = v]
  /\ UNCHANGED <<call, answer>>

StoreNext ==
  \/ Begin \/ Waver \/ Succeed \/ Fail \/ Die \/ Hear
  \/ \E f \in Files, v \in Contents : Write(f, v)

StoreSpec == StoreInit /\ [][StoreNext]_<<content, call, answer>>
=============================================================================
