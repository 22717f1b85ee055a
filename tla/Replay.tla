------------------------------- MODULE Replay -------------------------------
(***************************************************************************)
(* Signed requests and their freshness: RequestSigner                      *)
(* (src/security/request-signer.ts) and ReplayGuard (replay-guard.ts).     *)
(* The network may deliver a request late, in another order, many times,   *)
(* changed or not at all; sender and receiver have clocks of their own,    *)
(* and either may be set back.                                             *)
(***************************************************************************)
EXTENDS Naturals, Integers, Sequences, FiniteSets

CONSTANTS
  Messages,      \* requests sent, all to one path
  Texts,         \* texts of a signature that decode to the same bytes
  MaxAge,        \* maxAgeMs
  MaxSkew,       \* maxSkewMs
  MaxEntries,
  MaxTime,       \* bound: both clocks
  MaxAccepted    \* bound: requests accepted

(* The constructor raises maxEntries to at least 1.                        *)
ASSUME ReplayAssumption ==
  MaxAge \in Nat /\ MaxSkew \in Nat /\ MaxEntries \in Nat \ {0} /\ MaxTime \in Nat

VARIABLES
  profile,   \* "v1" signs no nonce, "v2" one per request
  now,       \* the receiver's clock
  signed,    \* requests on the wire: {} or their date
  seen,      \* _seen, in the order of insertion
  accepted,  \* history: the requests accepted since the last clear(), with
             \* the text of the signature each came with
  refused    \* history: what was just refused inside the window, {} or one

replayVars == <<profile, now, signed, seen, accepted, refused>>

Times == 0..MaxTime

(* What the HMAC covers that tells requests apart: the date, and the nonce.*)
Signature(m) ==
  [date |-> CHOOSE d \in signed[m] : TRUE, nonce |-> IF profile = "v2" THEN m ELSE CHOOSE n \in Messages : TRUE]

Signatures == [date : Times, nonce : Messages]
Deliveries == [of : Messages, text : Texts]
GuardKeys == [signature : Signatures, text : Texts]

(* What the guard remembers is the text of the signature as it came, while *)
(* timingSafeEqualHex() compares the bytes: another case of the digits, or *)
(* anything after them, is another key.                                    *)
GuardKey(d) == [signature |-> Signature(d.of), text |-> d.text]

ReplayTypeOK ==
  /\ profile \in {"v1", "v2"}
  /\ now \in Times
  /\ signed \in [Messages -> SUBSET Times]
  /\ seen \in Seq(GuardKeys)
  /\ accepted \in Seq(Deliveries)
  /\ refused \subseteq Deliveries

ReplayInit ==
  /\ profile \in {"v1", "v2"}
  /\ now = 0
  /\ signed = [m \in Messages |-> {}]
  /\ seen = <<>>
  /\ accepted = <<>>
  /\ refused = {}

(* sign(), with a date of the sender's clock.                              *)
Sign(m, date) ==
  /\ signed[m] = {}
  /\ signed' = [signed EXCEPT ![m] = {date}]
  /\ refused' = {}
  /\ UNCHANGED <<profile, now, seen, accepted>>

(* Mutant: the oldest goes when the limit is reached, not when it is passed.*)
RememberOneLess(sig) ==
  LET longer == Append(seen, sig)
  IN  IF Len(longer) >= MaxEntries THEN Tail(longer) ELSE longer

(* _remember(): first in, first out.                                       *)
Remember(sig) ==
  LET longer == Append(seen, sig)
  IN  IF Len(longer) > MaxEntries THEN Tail(longer) ELSE longer

Timely(date) == now - date <= MaxAge /\ date - now <= MaxSkew

(* verify(), of a request that was changed on its way in a part the HMAC   *)
(* covers, in its body, or not at all: v1 does not cover the body.         *)
Verifies(changed) == changed = "nothing" \/ (changed = "body" /\ profile = "v1")

(* verifyFresh(): the signature, then the guard: the window, then the      *)
(* cache, which holds only what passed the window.                         *)
Deliver(d, changed) ==
  /\ signed[d.of] # {}
  /\ Len(accepted) < MaxAccepted
  /\ LET fresh == Verifies(changed) /\ Timely(Signature(d.of).date)
         used == \E i \in DOMAIN seen : seen[i] = GuardKey(d)
     IN  IF fresh /\ ~used
         THEN /\ seen' = Remember(GuardKey(d))
              /\ accepted' = Append(accepted, d)
              /\ refused' = {}
         ELSE /\ refused' = IF fresh THEN {d} ELSE {}
              /\ UNCHANGED <<seen, accepted>>
  /\ UNCHANGED <<profile, now, signed>>

(* clear().                                                                *)
Forget ==
  /\ seen' = <<>>
  /\ accepted' = <<>>
  /\ refused' = {}
  /\ UNCHANGED <<profile, now, signed>>

ReceiverClock(t) ==
  /\ now' = t
  /\ refused' = {}
  /\ UNCHANGED <<profile, signed, seen, accepted>>

ReplayNext ==
  \/ \E d \in Deliveries, changed \in {"nothing", "body", "signed"} : Deliver(d, changed)
  \/ \E m \in Messages, date \in Times : Sign(m, date)
  \/ Forget
  \/ \E t \in Times : ReceiverClock(t)

ReplaySpec == ReplayInit /\ [][ReplayNext]_replayVars

----------------------------------------------------------------------------
(* Between two clear(), one text of a signature is accepted again only     *)
(* after MaxEntries other acceptances, so that no MaxEntries + 1 of them   *)
(* in a row hold more of one signature than it has texts; and a request    *)
(* inside the window is refused only if that text was accepted before --   *)
(* in profile v2 of this very request, while in v1 it may have been        *)
(* another's of the same second, or this one's with another body.          *)
ReplayBounded ==
  /\ \A i, j \in DOMAIN accepted :
       i < j /\ GuardKey(accepted[i]) = GuardKey(accepted[j]) => j - i > MaxEntries
  /\ \A d \in refused :
       /\ \E i \in DOMAIN accepted : GuardKey(accepted[i]) = GuardKey(d)
       /\ profile = "v2" => \E i \in DOMAIN accepted : accepted[i] = d
============================================================================
