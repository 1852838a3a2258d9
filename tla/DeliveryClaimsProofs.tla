------------------------- MODULE DeliveryClaimsProofs -------------------------
(***************************************************************************)
(* Proofs about DeliveryClaims for any number of workers and tokens and    *)
(* any two expiries.  The age of an acceptance and the life its key has    *)
(* left always make up the time it is kept.                                *)
(***************************************************************************)
EXTENDS DeliveryClaims, TLAPS

Steps == {"idle", "set", "get", "setAgain", "getAgain", "claimed"} \cup Ended

Typed ==
  /\ key \in [value : Tokens \cup {Absent, Accepted}, ttl : Nat]
  /\ sender \in [Senders -> [step : Steps, token : Tokens \cup {Absent}]]
  /\ since \in 0..AcceptedTicks

KeyLives ==
  /\ key.value = Absent <=> key.ttl = 0
  /\ key.ttl <= IF key.value = Accepted THEN AcceptedTicks ELSE ClaimTicks

(* An attempt under way has a token, which no other attempt has.           *)
TokensAreOwn ==
  /\ \A s \in Senders : sender[s].token = Absent <=> At(s, "idle")
  /\ \A s, t \in Senders :
       sender[s].token = sender[t].token => s = t \/ sender[s].token = Absent

Ages == since + (IF key.value = Accepted THEN key.ttl ELSE 0) = AcceptedTicks

(* The inductive invariant.                                                *)
ClaimsInv == Typed /\ KeyLives /\ TokensAreOwn /\ Ages

-----------------------------------------------------------------------------
LEMMA InitClaims == Init => ClaimsInv
  BY TicksArePositive, ValuesDiffer
     DEF Init, ClaimsInv, Typed, KeyLives, TokensAreOwn, Ages, Missing, Idle, At, Steps

(* A worker that goes on with its token disturbs nobody.                   *)
LEMMA GotoKeeps ==
  ASSUME ClaimsInv, NEW s \in Senders, ~At(s, "idle"),
         NEW step \in Steps \ {"idle"}, Goto(s, step)
  PROVE  /\ sender' \in [Senders -> [step : Steps, token : Tokens \cup {Absent}]]
         /\ TokensAreOwn'
  BY DEF ClaimsInv, Typed, TokensAreOwn, Goto, At

LEMMA IdleKeeps ==
  ASSUME ClaimsInv, NEW s \in Senders,
         sender' = [sender EXCEPT ![s] = Idle]
  PROVE  /\ sender' \in [Senders -> [step : Steps, token : Tokens \cup {Absent}]]
         /\ TokensAreOwn'
  BY DEF ClaimsInv, Typed, TokensAreOwn, At, Idle, Steps

LEMMA KeyIsMissing ==
  ASSUME ClaimsInv
  PROVE  key = Missing <=> key.value = Absent
  BY DEF ClaimsInv, Typed, KeyLives, Missing

LEMMA SendStep ==
  ASSUME ClaimsInv, NEW s \in Senders, Send(s)
  PROVE  ClaimsInv'
  <1>1. PICK token \in Tokens :
          Fresh(token) /\ sender' = [sender EXCEPT ![s] = [step |-> "set", token |-> token]]
    BY DEF Send
  <1>2. UNCHANGED <<key, since>>
    BY DEF Send
  <1>3. sender' \in [Senders -> [step : Steps, token : Tokens \cup {Absent}]]
    BY <1>1 DEF ClaimsInv, Typed, Steps
  <1>4. TokensAreOwn'
    BY <1>1, ValuesDiffer DEF ClaimsInv, Typed, TokensAreOwn, Fresh, At
  <1> QED
    BY <1>2, <1>3, <1>4 DEF ClaimsInv, Typed, KeyLives, Ages

LEMMA ClaimStep ==
  ASSUME ClaimsInv, NEW s \in Senders, Claim(s)
  PROVE  ClaimsInv'
  <1>1. ~At(s, "idle") /\ SetIfAbsent(s) /\ UNCHANGED since
    BY DEF Claim, At
  <1>2. PICK step \in {"claimed", "get", "getAgain"} : Goto(s, step)
    BY DEF Claim
  <1>3. /\ sender' \in [Senders -> [step : Steps, token : Tokens \cup {Absent}]]
        /\ TokensAreOwn'
    BY <1>1, <1>2, GotoKeeps DEF Steps
  <1>4. sender[s].token \in Tokens
    BY <1>1 DEF ClaimsInv, Typed, TokensAreOwn
  <1>5. CASE key = Missing
    <2>1. key' = [value |-> sender[s].token, ttl |-> ClaimTicks]
      BY <1>1, <1>5 DEF SetIfAbsent
    <2> QED
      BY <1>1, <1>3, <1>4, <1>5, <2>1, ValuesDiffer, TicksArePositive
         DEF ClaimsInv, Typed, KeyLives, Ages, Missing
  <1>6. CASE key # Missing
    BY <1>1, <1>3, <1>6 DEF ClaimsInv, Typed, KeyLives, Ages, SetIfAbsent
  <1> QED
    BY <1>5, <1>6

LEMMA LookStep ==
  ASSUME ClaimsInv, NEW s \in Senders, Look(s)
  PROVE  ClaimsInv'
  <1>1. ~At(s, "idle") /\ UNCHANGED <<key, since>>
    BY DEF Look, At
  <1>2. PICK step \in {"duplicate", "setAgain", "inProgress"} : Goto(s, step)
    BY DEF Look, Verdict
  <1>3. /\ sender' \in [Senders -> [step : Steps, token : Tokens \cup {Absent}]]
        /\ TokensAreOwn'
    BY <1>1, <1>2, GotoKeeps DEF Steps, Ended
  <1> QED
    BY <1>1, <1>3 DEF ClaimsInv, Typed, KeyLives, Ages

LEMMA MarkAcceptedStep ==
  ASSUME ClaimsInv, NEW s \in Senders, MarkAccepted(s)
  PROVE  ClaimsInv'
  <1>1. ~At(s, "idle")
    BY DEF MarkAccepted, At
  <1>2. PICK step \in {"accepted", "lost"} : Goto(s, step)
    BY DEF MarkAccepted
  <1>3. /\ sender' \in [Senders -> [step : Steps, token : Tokens \cup {Absent}]]
        /\ TokensAreOwn'
    BY <1>1, <1>2, GotoKeeps DEF Steps, Ended
  <1>4. CASE IsOwner(s)
    <2>1. key' = [value |-> Accepted, ttl |-> AcceptedTicks] /\ since' = 0
      BY <1>4 DEF MarkAccepted
    <2> QED
      BY <1>3, <2>1, ValuesDiffer, TicksArePositive
         DEF ClaimsInv, Typed, KeyLives, Ages
  <1>5. CASE ~IsOwner(s)
    BY <1>3, <1>5 DEF ClaimsInv, Typed, KeyLives, Ages, MarkAccepted
  <1> QED
    BY <1>4, <1>5

LEMMA TickStep ==
  ASSUME ClaimsInv, Tick
  PROVE  ClaimsInv'
  <1>1. sender' = sender /\ TokensAreOwn'
    BY DEF Tick, ClaimsInv, TokensAreOwn, At
  <1>2. since' = IF since < AcceptedTicks THEN since + 1 ELSE since
    BY DEF Tick
  <1>3. CASE key.ttl = 1
    <2>1. key' = Missing
      BY <1>3 DEF Tick
    <2> QED
      BY <1>1, <1>2, <1>3, <2>1, ValuesDiffer, TicksArePositive
         DEF ClaimsInv, Typed, KeyLives, Ages, Missing
  <1>4. CASE key.ttl > 1
    <2>1. /\ key' \in [value : Tokens \cup {Absent, Accepted}, ttl : Nat]
          /\ key'.value = key.value /\ key'.ttl = key.ttl - 1
      BY <1>4 DEF Tick, ClaimsInv, Typed
    <2> QED
      BY <1>1, <1>2, <1>4, <2>1, TicksArePositive
         DEF ClaimsInv, Typed, KeyLives, Ages
  <1>5. CASE key.ttl = 0
    <2>1. key' = key
      BY <1>5 DEF Tick
    <2> QED
      BY <1>1, <1>2, <1>5, <2>1, ValuesDiffer, TicksArePositive
         DEF ClaimsInv, Typed, KeyLives, Ages
  <1> QED
    BY <1>3, <1>4, <1>5 DEF ClaimsInv, Typed

LEMMA NextClaims == ClaimsInv /\ [Next]_vars => ClaimsInv'
  <1> SUFFICES ASSUME ClaimsInv, [Next]_vars PROVE ClaimsInv'
    OBVIOUS
  <1>1. CASE \E s \in Senders : Reply(s) \/ Fail(s)
    <2>1. PICK s \in Senders : sender' = [sender EXCEPT ![s] = Idle] /\ UNCHANGED <<key, since>>
      BY <1>1 DEF Reply, Fail
    <2> QED
      BY <2>1, IdleKeeps DEF ClaimsInv, Typed, KeyLives, Ages
  <1>2. CASE UNCHANGED vars
    BY <1>2 DEF vars, ClaimsInv, Typed, KeyLives, TokensAreOwn, Ages, At
  <1> QED
    BY <1>1, <1>2, SendStep, ClaimStep, LookStep, MarkAcceptedStep, TickStep DEF Next

THEOREM ClaimsInvariant == Spec => []ClaimsInv
  BY InitClaims, NextClaims, PTL DEF Spec

-----------------------------------------------------------------------------
(* The key, its life and the tokens stay of their types.                   *)
THEOREM ClaimsTypeCorrect == Spec => []ClaimsTypeOK
  <1>1. ClaimsInv => ClaimsTypeOK
    BY DEF ClaimsInv, Typed, KeyLives, TokensAreOwn, ClaimsTypeOK
  <1> QED
    BY <1>1, ClaimsInvariant, PTL

(* An acceptance is in the key for exactly as long as it is to be kept.    *)
THEOREM AcceptanceKept == Spec => []AcceptanceIsKept
  <1>1. ClaimsInv => AcceptanceIsKept
    BY TicksArePositive, ValuesDiffer DEF ClaimsInv, Typed, KeyLives, Ages, AcceptanceIsKept
  <1> QED
    BY <1>1, ClaimsInvariant, PTL

(* No attempt is accepted while an acceptance is kept: claims that expired *)
(* under their owners cannot be finished over it.                          *)
THEOREM AcceptedOnce == Spec => AcceptedOncePerWindow
  <1>1. ASSUME ClaimsInv, [Next]_vars,
               NEW s \in Senders, ~At(s, "accepted"), At(s, "accepted")'
        PROVE  since = AcceptedTicks
    <2>1. MarkAccepted(s) /\ IsOwner(s)
      <3>1. sender'[s].step = "accepted" /\ sender[s].step # "accepted"
        BY <1>1 DEF At
      <3>2. ASSUME NEW t \in Senders, t # s,
                   Send(t) \/ Claim(t) \/ Look(t) \/ MarkAccepted(t) \/ Reply(t) \/ Fail(t)
            PROVE  sender'[s] = sender[s]
        BY <1>1, <3>2 DEF Send, Claim, Look, MarkAccepted, Reply, Fail, Goto, ClaimsInv, Typed
      <3>3. Send(s) \/ Claim(s) \/ Look(s) \/ MarkAccepted(s) \/ Reply(s) \/ Fail(s)
        BY <1>1, <3>1, <3>2 DEF Next, Tick, vars
      <3>4. ~Send(s) /\ ~Reply(s) /\ ~Fail(s)
        BY <1>1, <3>1 DEF Send, Reply, Fail, Idle, ClaimsInv, Typed
      <3>5. ~Claim(s)
        BY <1>1, <3>1 DEF Claim, Goto, ClaimsInv, Typed
      <3> QED
        BY <1>1, <3>1, <3>3, <3>4, <3>5 DEF Look, Verdict, MarkAccepted, Goto, ClaimsInv, Typed
    <2>2. sender[s].token \in Tokens
      BY <1>1, <2>1 DEF MarkAccepted, At, ClaimsInv, Typed, TokensAreOwn
    <2> QED
      BY <1>1, <2>1, <2>2, ValuesDiffer DEF IsOwner, ClaimsInv, Typed, Ages
  <1>2. ClaimsInv /\ [Next]_vars =>
          [\A s \in Senders :
             (~At(s, "accepted") /\ At(s, "accepted")') => since = AcceptedTicks]_vars
    BY <1>1
  <1> QED
    BY <1>2, ClaimsInvariant, PTL DEF Spec, AcceptedOncePerWindow

(* An attempt that reports an earlier acceptance read one that is kept.    *)
THEOREM DuplicatesAreReal == Spec => DuplicatesWereAccepted
  <1>1. ASSUME ClaimsInv, [Next]_vars,
               NEW s \in Senders, ~At(s, "duplicate"), At(s, "duplicate")'
        PROVE  since < AcceptedTicks
    <2>1. Look(s) /\ key.value = Accepted
      <3>1. sender'[s].step = "duplicate" /\ sender[s].step # "duplicate"
        BY <1>1 DEF At
      <3>2. ASSUME NEW t \in Senders, t # s,
                   Send(t) \/ Claim(t) \/ Look(t) \/ MarkAccepted(t) \/ Reply(t) \/ Fail(t)
            PROVE  sender'[s] = sender[s]
        BY <1>1, <3>2 DEF Send, Claim, Look, MarkAccepted, Reply, Fail, Goto, ClaimsInv, Typed
      <3>3. Send(s) \/ Claim(s) \/ Look(s) \/ MarkAccepted(s) \/ Reply(s) \/ Fail(s)
        BY <1>1, <3>1, <3>2 DEF Next, Tick, vars
      <3>4. ~Send(s) /\ ~Reply(s) /\ ~Fail(s)
        BY <1>1, <3>1 DEF Send, Reply, Fail, Idle, ClaimsInv, Typed
      <3>5. ~Claim(s)
        BY <1>1, <3>1 DEF Claim, Goto, ClaimsInv, Typed
      <3> QED
        BY <1>1, <3>1, <3>3, <3>4, <3>5 DEF Look, Verdict, MarkAccepted, Goto, ClaimsInv, Typed
    <2> QED
      BY <1>1, <2>1, TicksArePositive, ValuesDiffer DEF ClaimsInv, Typed, KeyLives, Ages
  <1>2. ClaimsInv /\ [Next]_vars =>
          [\A s \in Senders :
             (~At(s, "duplicate") /\ At(s, "duplicate")') => since < AcceptedTicks]_vars
    BY <1>1
  <1> QED
    BY <1>2, ClaimsInvariant, PTL DEF Spec, DuplicatesWereAccepted

(* Every answer of an attempt is true, however late it comes.               *)
THEOREM AnswersTrue == Spec => AnswersAreTrue
  BY AcceptedOnce, DuplicatesAreReal DEF AnswersAreTrue
=============================================================================
