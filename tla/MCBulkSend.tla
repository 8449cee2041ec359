----------------------------- MODULE MCBulkSend -----------------------------
(* Two Sends of one mailing, of each kind in turn; two addresses.          *)
EXTENDS BulkSend

CONSTANTS m1, c1, c2, a1, a2, new, q1, q2

MCMailings == {m1}
MCKinds == [MCMailings -> {"newsletter", "post", "campaign"}]
MCLetters == {1, 2}
MCClicks == {c1, c2}
MCAddresses == {a1, a2}
MCFamilies == {a1, a2}
MCPublic == {a1}
MCStatuses == {new}
MCEnquiries == {q1, q2}
=============================================================================
