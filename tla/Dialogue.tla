------------------------------ MODULE Dialogue ------------------------------
(***************************************************************************)
(* What parse_read_message takes message_communication for                 *)
(* (common_msg.hpp): a dialogue in which a process and one wallet take     *)
(* turns.  Each message replies to what the wallet asked last, the wallet  *)
(* handles each once and nothing in between, and the process hears the     *)
(* answer to just what it said.                                            *)
(*                                                                         *)
(* A dialogue may be disturbed at any time, and then nothing is promised   *)
(* of it any more: whoever speaks disturbs all others.                     *)
(***************************************************************************)
CONSTANTS
  Processes,
  Wallets,
  NoWallet,
  Messages   (* The numbers of the messages, from 1.                       *)

VARIABLES
  talk,      (* For each process: whose turn it is, the wallet it talks    *)
             (* with, and the last message between them.                   *)
  asked      (* For each wallet: the message it handled last.              *)

vars == <<talk, asked>>

\* No dialogue, or one that was disturbed.
Silent == [turn |-> "none", wallet |-> NoWallet, message |-> 0]

Init ==
  /\ talk = [p \in Processes |-> Silent]
  /\ asked = [w \in Wallets |-> 0]

\* A command begins, with no wallet yet.
Begin(p) ==
  /\ talk[p].turn = "none"
  /\ talk' = [talk EXCEPT ![p] = [Silent EXCEPT !.turn = "process"]]
  /\ UNCHANGED asked

\* The first message may go to any wallet; every other one is a reply.
Say(p, w, m) ==
  /\ talk[p].turn = "process"
  /\ talk[p].message # 0 => w = talk[p].wallet /\ asked[w] = talk[p].message
  /\ talk' = [q \in Processes |->
       IF q = p THEN [turn |-> "wallet", wallet |-> w, message |-> m] ELSE Silent]
  /\ UNCHANGED asked

\* A wallet in a dialogue handles what was said to it, in its turn; one that is
\* in none handles anything.
Handle(w, m) ==
  /\ \A p \in Processes :
       talk[p].wallet = w => talk[p].turn = "wallet" /\ talk[p].message = m
  /\ asked' = [asked EXCEPT ![w] = m]
  /\ talk' = [p \in Processes |->
       IF talk[p].wallet = w THEN [talk[p] EXCEPT !.turn = "answer"] ELSE talk[p]]

\* The process has the answer, and may reply.
Hear(p) ==
  /\ talk[p].turn = "answer"
  /\ talk' = [talk EXCEPT ![p].turn = "process"]
  /\ UNCHANGED asked

\* A command ends or fails, a process is killed, a wallet comes or goes.
Disturb ==
  /\ \E left \in SUBSET Processes :
       talk' = [p \in Processes |-> IF p \in left THEN Silent ELSE talk[p]]
  /\ UNCHANGED asked

Next ==
  \/ \E p \in Processes : Begin(p) \/ Hear(p)
  \/ \E p \in Processes, w \in Wallets, m \in Messages : Say(p, w, m)
  \/ \E w \in Wallets, m \in Messages : Handle(w, m)
  \/ Disturb

Spec == Init /\ [][Next]_vars
=============================================================================
