-------------------------- MODULE WebhookReceiver --------------------------
(***************************************************************************)
(* webhooks.go: a receiver calls ConstructEvent on each delivery.  The     *)
(* header is a list of fields; the timestamp and the digest that count are *)
(* the last of their kind, and a field that is neither is passed over.     *)
(* The sender and the way between them are external: deliveries come late, *)
(* again, and from other senders, whose headers are made of what they saw. *)
(* A digest is what it was computed from; clocks differ and are in ticks.  *)
(***************************************************************************)
EXTENDS Integers, Sequences, FiniteSets

CONSTANTS Payloads,   \* bodies the sender may deliver
          Secrets,    \* signing secrets, the receiver's among them
          Mine,       \* the receiver's
          Tolerance,  \* DefaultWebhookTolerance; 0: any age will do
          Clock       \* bound: instants 0 .. Clock

ASSUME WebhookAssumption ==
  Mine \in Secrets /\ Tolerance \in Nat /\ Clock \in Nat

VARIABLES
  now,      \* the receiver's clock
  signed,   \* digests the sender has made
  events    \* deliveries accepted: payload, and the clocks of both

hookVars == <<now, signed, events>>

Digest(secret, t, payload) == [secret |-> secret, t |-> t, payload |-> payload]

HookInit == now = 0 /\ signed = {} /\ events = {}

\* ComputeWebhookSignature, at the sender, whose clock may be off either way.
Sign ==
  /\ \E p \in Payloads, t \in 0 .. Clock, s \in Secrets :
       signed' = signed \cup {Digest(s, t, p)}
  /\ Cardinality(signed) < 2
  /\ UNCHANGED <<now, events>>

Unreadable == -1
Field(key, value) == [key |-> key, value |-> value]

\* Headers as they arrive: a signature as it was made, or with the timestamp
\* replaced, repeated or unreadable, or a field of another kind in front.
Headers ==
  UNION {LET own == Field("t", d.t)  mac == Field("v1", d) IN
           {<<own, mac>>, <<mac, own>>, <<Field("v0", d), own, mac>>, <<mac>>, <<own>>,
            <<Field("t", Unreadable), own, mac>>} \cup
           {<<own, mac, Field("t", t)>> : t \in 0 .. Clock} : d \in signed}

LastOf(header, key) ==
  LET at == {i \in DOMAIN header : header[i].key = key}
  IN  header[CHOOSE i \in at : \A j \in at : j <= i].value

\* parseSignatureHeader: both are there, and no timestamp is unreadable.
Parses(header) ==
  /\ \A key \in {"t", "v1"} : \E i \in DOMAIN header : header[i].key = key
  /\ \A i \in DOMAIN header : header[i] # Field("t", Unreadable)

\* verifyWebhookSignature: the digest of this payload at this timestamp.
Verified(header, payload) ==
  /\ Parses(header)
  /\ LastOf(header, "v1") = Digest(Mine, LastOf(header, "t"), payload)

\* Mutant: only old deliveries are refused.
FreshEnough(t) == Tolerance > 0 => now - t <= Tolerance

\* The drift either way.
Fresh(t) == Tolerance > 0 => now - t <= Tolerance /\ t - now <= Tolerance

\* ConstructWebhookEvent.  Whether the payload decodes is the caller's.
ConstructEvent ==
  /\ \E header \in Headers, p \in Payloads :
       /\ Verified(header, p) /\ Fresh(LastOf(header, "t"))
       /\ events' = events \cup {[payload |-> p, at |-> now, t |-> LastOf(header, "v1").t]}
  /\ UNCHANGED <<now, signed>>

Passes ==
  /\ now < Clock /\ now' = now + 1
  /\ UNCHANGED <<signed, events>>

HookNext == Sign \/ ConstructEvent \/ Passes

-----------------------------------------------------------------------------
\* What is accepted was signed with the receiver's secret, this payload and no
\* other, at an instant within the tolerance of the receiver's clock, before or
\* after it: a delivery replayed later, or with its timestamp changed, is not.
AcceptedSignedAndFresh ==
  \A e \in events :
    /\ Digest(Mine, e.t, e.payload) \in signed
    /\ Tolerance > 0 => e.t \in e.at - Tolerance .. e.at + Tolerance

=============================================================================
