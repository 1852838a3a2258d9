----------------------------- MODULE DeliveryClaims -----------------------------
(***************************************************************************)
(* The key that keeps a delivery from being accepted twice: an attempt     *)
(* claims it in Redis with a token of its own and an expiry, hands the     *)
(* message over, and turns the claim into an acceptance if the claim is    *)
(* still its own.  Attempts of one delivery by several workers overlap,    *)
(* die at any moment, and may be slower than the expiry of their claim.    *)
(* Keys are independent: this is one of them.                              *)
(***************************************************************************)
EXTENDS Integers, FiniteSets

CONSTANTS
  Absent,
  Senders,         \* workers that attempt the delivery, again and again
  Tokens,          \* random claim tokens
  ClaimTicks,      \* NOTIFICATION_IDEMPOTENCY_CLAIM_TTL_SECONDS
  AcceptedTicks    \* how long an acceptance is kept

(* A token that is not in use can always be drawn.                         *)
ASSUME TokensSuffice == Cardinality(Tokens) > Cardinality(Senders)
ASSUME TicksArePositive == ClaimTicks \in Nat \ {0} /\ AcceptedTicks \in Nat \ {0}

VARIABLES
  key,     \* [value, ttl]: the value of the key and the ticks it has left
  sender,  \* [step, token]: where the attempt of each worker is
  since    \* history: ticks since the last acceptance, as far as it is kept

vars == <<key, sender, since>>

Accepted == "accepted"

(* A value is "processing:" and a token, or "accepted", or there is none.  *)
ASSUME ValuesDiffer == Tokens \cap {Absent, Accepted} = {} /\ Absent # Accepted

Missing == [value |-> Absent, ttl |-> 0]

Idle == [step |-> "idle", token |-> Absent]

At(s, step) == sender[s].step = step

Goto(s, step) == sender' = [sender EXCEPT ![s].step = step]

Fresh(token) == token # key.value /\ \A s \in Senders : sender[s].token # token

-----------------------------------------------------------------------------
(* An attempt: the registry calls the provider of the channel, and that    *)
(* claims.                                                                 *)
Send(s) ==
  /\ sender[s] = Idle
  /\ \E token \in Tokens :
       Fresh(token) /\ sender' = [sender EXCEPT ![s] = [step |-> "set", token |-> token]]
  /\ UNCHANGED <<key, since>>

(* Mutant: the claim is set without an expiry.                             *)
SetIfAbsentForever(s) ==
  key' = IF key = Missing THEN [value |-> sender[s].token, ttl |-> -1] ELSE key

(* SET key processing:token EX NX.                                         *)
SetIfAbsent(s) ==
  key' = IF key = Missing THEN [value |-> sender[s].token, ttl |-> ClaimTicks] ELSE key

(* The first try, and the one after the key was seen to have gone.         *)
Claim(s) ==
  \E tried \in {"set", "setAgain"} :
    /\ At(s, tried) /\ SetIfAbsent(s)
    /\ Goto(s, IF key = Missing THEN "claimed"
               ELSE IF tried = "set" THEN "get" ELSE "getAgain")
    /\ UNCHANGED since

(* What the value of a key that could not be claimed means.  Only an       *)
(* explicit acceptance is one; a key that has gone is tried once more.     *)
Verdict(value, again) ==
  CASE value = Accepted -> "duplicate"
    [] value = Absent /\ again -> "setAgain"
    [] OTHER -> "inProgress"

Look(s) ==
  /\ At(s, "get") \/ At(s, "getAgain")
  /\ Goto(s, Verdict(key.value, At(s, "get")))
  /\ UNCHANGED <<key, since>>

(* Mutant: the script only looks whether the key is there.                 *)
IsPresent(s) == key.value # Absent

(* The script that finishes a claim compares the token with the key.       *)
IsOwner(s) == key.value = sender[s].token

(* The message has been handed over: compare and set.                      *)
MarkAccepted(s) ==
  /\ At(s, "claimed")
  /\ IF IsOwner(s)
       THEN /\ key' = [value |-> Accepted, ttl |-> AcceptedTicks]
            /\ Goto(s, "accepted") /\ since' = 0
       ELSE Goto(s, "lost") /\ UNCHANGED <<key, since>>

(* The provider reports success for an acceptance, now or earlier, and     *)
(* throws otherwise.                                                       *)
Ended == {"accepted", "duplicate", "inProgress", "lost"}

Reply(s) ==
  /\ sender[s].step \in Ended
  /\ sender' = [sender EXCEPT ![s] = Idle]
  /\ UNCHANGED <<key, since>>

(* A worker dies, or an answer of Redis does not arrive.                   *)
Fail(s) ==
  /\ sender[s] # Idle
  /\ sender' = [sender EXCEPT ![s] = Idle]
  /\ UNCHANGED <<key, since>>

Tick ==
  /\ key' = IF key.ttl = 1 THEN Missing
            ELSE IF key.ttl > 1 THEN [key EXCEPT !.ttl = @ - 1] ELSE key
  /\ since' = IF since < AcceptedTicks THEN since + 1 ELSE since
  /\ <<key, since>>' # <<key, since>>
  /\ UNCHANGED sender

-----------------------------------------------------------------------------
Init ==
  /\ key = Missing
  /\ sender = [s \in Senders |-> Idle]
  /\ since = AcceptedTicks

Next ==
  \/ \E s \in Senders :
       Send(s) \/ Claim(s) \/ Look(s) \/ MarkAccepted(s) \/ Reply(s) \/ Fail(s)
  \/ Tick

Spec == Init /\ [][Next]_vars

(* Time passes, whatever the workers do.                                   *)
FairSpec == Spec /\ WF_vars(Tick)

-----------------------------------------------------------------------------
(* Every variable has its type; the key lives no longer than its value may,*)
(* and an attempt's token is its own.                                      *)
ClaimsTypeOK ==
  /\ key.value \in Tokens \cup {Absent, Accepted}
  /\ key.ttl \in Nat /\ ((key.value = Absent) <=> (key.ttl = 0))
  /\ key.ttl <= IF key.value = Accepted THEN AcceptedTicks ELSE ClaimTicks
  /\ \A s, t \in Senders :
       sender[s].token = sender[t].token => s = t \/ sender[s].token = Absent

(* An acceptance is remembered for exactly as long as it is kept.          *)
AcceptanceIsKept == (key.value = Accepted) <=> (since < AcceptedTicks)

(* An attempt that reports an earlier acceptance has seen one: somebody's  *)
(* claim became an acceptance, not so long ago that it was forgotten when  *)
(* the key was read.                                                       *)
DuplicatesWereAccepted ==
  [][\A s \in Senders :
       (~At(s, "duplicate") /\ At(s, "duplicate")') => since < AcceptedTicks]_vars

(* However claims expire under their owners, are taken over and finished   *)
(* late: while one acceptance is kept, no other attempt is accepted.       *)
AcceptedOncePerWindow ==
  [][\A s \in Senders :
       (~At(s, "accepted") /\ At(s, "accepted")') => since = AcceptedTicks]_vars

(* What the attempts report is true, however late they are: "accepted"     *)
(* once while an acceptance is kept, "duplicate" only of an acceptance.    *)
AnswersAreTrue == AcceptedOncePerWindow /\ DuplicatesWereAccepted

(* A claim whose owner died or dawdles does not stay in the way: it ends.  *)
ClaimsEnd == \A token \in Tokens : (key.value = token) ~> (key.value # token)
=============================================================================
