------------------------------ MODULE BulkMail ------------------------------
(***************************************************************************)
(* What a bulk mailing promises, whatever carries it: newsletters, emailed *)
(* posts and prospect campaigns (internal/newsletter, internal/prospect).  *)
(*                                                                         *)
(*   - a letter may be rewritten until somebody starts to send it, and     *)
(*     never after;                                                        *)
(*   - a send claims one mailing, never one that is sent already;          *)
(*   - one send puts at most one copy in any mailbox.                      *)
(*                                                                         *)
(* It does not promise that a mailing is sent by one claim only: see       *)
(* TwoClicksOneSend of BulkSend.                                           *)
(***************************************************************************)
EXTENDS Naturals

CONSTANTS Mailings, Sends, Addresses, Letters, NoMailing

VARIABLES
    phase,      \* of a mailing
    letter,     \* what a mailing says
    claim,      \* the mailing a send has claimed, or NoMailing
    copies      \* how many copies send s has put in mailbox a

vars == <<phase, letter, claim, copies>>

Init ==
    /\ phase = [m \in Mailings |-> "none"]
    /\ letter \in [Mailings -> Letters]
    /\ claim = [s \in Sends |-> NoMailing]
    /\ copies = [s \in Sends |-> [a \in Addresses |-> 0]]

\* Write or rewrite a draft.
Write(m) ==
    /\ phase[m] \in {"none", "draft"}
    /\ phase' = [phase EXCEPT ![m] = "draft"]
    /\ \E l \in Letters : letter' = [letter EXCEPT ![m] = l]
    /\ UNCHANGED <<claim, copies>>

\* Start to send a draft, or start again a send that was left half done.
Begin(s, m) ==
    /\ claim[s] = NoMailing
    /\ phase[m] \in {"draft", "sending"}
    /\ phase' = [phase EXCEPT ![m] = "sending"]
    /\ claim' = [claim EXCEPT ![s] = m]
    /\ UNCHANGED <<letter, copies>>

\* Write a letter and start to send it at once.
WriteAndBegin(s, m) ==
    /\ claim[s] = NoMailing
    /\ phase[m] = "none"
    /\ phase' = [phase EXCEPT ![m] = "sending"]
    /\ \E l \in Letters : letter' = [letter EXCEPT ![m] = l]
    /\ claim' = [claim EXCEPT ![s] = m]
    /\ UNCHANGED copies

Deliver(s, a) ==
    /\ claim[s] # NoMailing
    /\ copies[s][a] = 0
    /\ copies' = [copies EXCEPT ![s][a] = 1]
    /\ UNCHANGED <<phase, letter, claim>>

Finish(m) ==
    /\ phase[m] \in {"sending", "sent"}
    /\ phase' = [phase EXCEPT ![m] = "sent"]
    /\ UNCHANGED <<letter, claim, copies>>

Withdraw(m) ==
    /\ phase[m] # "none"
    /\ phase' = [phase EXCEPT ![m] = "deleted"]
    /\ UNCHANGED <<letter, claim, copies>>

Next ==
    \/ \E m \in Mailings :
         \/ Write(m) \/ Finish(m) \/ Withdraw(m)
         \/ \E s \in Sends : Begin(s, m) \/ WriteAndBegin(s, m)
    \/ \E s \in Sends, a \in Addresses : Deliver(s, a)

Spec == Init /\ [][Next]_vars
=============================================================================
