----------------------------- MODULE Auth_proofs -----------------------------
(***************************************************************************)
(* Proofs about Auth, for every set of instances and keys, every life,     *)
(* skew and drift, and every bound.                                        *)
(***************************************************************************)
EXTENDS Auth, TLAPS

-----------------------------------------------------------------------------
(* The inductive invariant *)

ClockOK == now \in Int /\ now >= Start /\ ahead \in -Drift .. Drift

\* A token with an expiration has the times of sign_token, on a clock that is
\* ahead of the node's, and none was signed in the future.
Signed(t) ==
    /\ t.at \in Int /\ t.at <= now
    /\ t.exp # None => t.exp = t.at + ahead + Life /\ t.nbf = t.at + ahead - Skew

\* The answer to the last call is the one its time, its token and its method
\* gave, and its token had been signed by then.
Answered ==
    call # None =>
        /\ call.method \in NodeMethod \cup InstanceMethod
        /\ call.at \in Int /\ Start <= call.at
        /\ call.token # None => Signed(call.token) /\ call.token.at <= call.at
        /\ call.ok <=>
              \/ secret = None
              \/ /\ call.token # None
                 /\ call.token.key = secret
                 /\ call.token.aud = (IF call.method \in NodeMethod THEN None ELSE call.id)
                 /\ call.at < unwrap_or_zero(call.token.exp)
                 /\ call.at > unwrap_or_zero(call.token.nbf)

IInv == ClockOK /\ (\A t \in tokens : Signed(t)) /\ Answered

-----------------------------------------------------------------------------
\* The first state satisfies the invariant.
LEMMA InitInv == Init => IInv
BY TimeAssumption DEF Init, IInv, ClockOK, Answered

\* sign_token and the other signers make tokens with the times Signed states.
LEMMA SignInv ==
    ASSUME IInv, NEW key, NEW aud, sign_token(key, aud) \/ sign_other(key, aud)
    PROVE  IInv'
<1>1. UNCHANGED <<now, ahead, secret, call>>
  BY DEF sign_token, sign_other
<1>2. PICK t : tokens' = tokens \cup {t} /\ Signed(t)
  <2>1. CASE sign_token(key, aud)
    <3> DEFINE tok == [key |-> key, aud |-> aud, exp |-> now + ahead + Life,
                     nbf |-> now + ahead - Skew, at |-> now]
    <3>1. tokens' = tokens \cup {tok}
      BY <2>1, TimeAssumption DEF sign_token, IInv, ClockOK
    <3>2. Signed(tok)
      BY DEF Signed, IInv, ClockOK
    <3> QED
      BY <3>1, <3>2
  <2>2. CASE sign_other(key, aud)
    <3> DEFINE tok == [key |-> key, aud |-> aud, exp |-> None, nbf |-> None, at |-> now]
    <3>1. tokens' = tokens \cup {tok}
      BY <2>2 DEF sign_other
    <3>2. Signed(tok)
      BY DEF Signed, IInv, ClockOK
    <3> QED
      BY <3>1, <3>2
  <2> QED
    BY <2>1, <2>2
<1> QED
  BY <1>1, <1>2 DEF IInv, ClockOK, Answered, Signed, unwrap_or_zero

\* A handler's call to validate_auth gives the answer Answered states.
LEMMA HandleInv ==
    ASSUME IInv, NEW m \in NodeMethod \cup InstanceMethod, NEW id, NEW token \in tokens \cup {None},
           handle(m, id, token)
    PROVE  IInv'
<1>1. UNCHANGED <<now, ahead, secret, tokens>>
  BY DEF handle
<1>2. call' = [method |-> m, id |-> id, token |-> token,
               ok |-> validate_auth(token, expected_audience(m, id)), at |-> now]
  BY DEF handle
<1>3. /\ call'.method = m /\ call'.id = id /\ call'.token = token /\ call'.at = now
      /\ call'.ok = validate_auth(token, expected_audience(m, id))
  BY <1>2
<1>4. validate_auth(token, expected_audience(m, id)) <=>
          \/ secret = None
          \/ /\ token # None
             /\ token.key = secret
             /\ token.aud = (IF m \in NodeMethod THEN None ELSE id)
             /\ now < unwrap_or_zero(token.exp)
             /\ now > unwrap_or_zero(token.nbf)
  BY DEF validate_auth, validate_authentication, expected_audience
<1>5. token # None => Signed(token) /\ token.at <= now
  BY DEF IInv, Signed
<1>6. now \in Int /\ Start <= now
  BY DEF IInv, ClockOK
<1>7. Answered'
  <2>1. /\ call'.method \in NodeMethod \cup InstanceMethod
        /\ call'.at \in Int /\ Start <= call'.at
    BY <1>3, <1>6
  <2>2. call'.token # None => Signed(call.token)' /\ call'.token.at <= call'.at
    BY <1>1, <1>3, <1>5 DEF Signed
  <2>3. call'.ok <=>
              \/ secret' = None
              \/ /\ call'.token # None
                 /\ call'.token.key = secret'
                 /\ call'.token.aud = (IF call'.method \in NodeMethod THEN None ELSE call'.id)
                 /\ call'.at < unwrap_or_zero(call'.token.exp)
                 /\ call'.at > unwrap_or_zero(call'.token.nbf)
    BY <1>1, <1>3, <1>4
  <2> QED
    BY <2>1, <2>2, <2>3 DEF Answered, unwrap_or_zero
<1> QED
  BY <1>1, <1>7 DEF IInv, ClockOK, Signed

\* Every step keeps the invariant.
LEMMA NextInv == IInv /\ [Next]_vars => IInv'
<1> SUFFICES ASSUME IInv, [Next]_vars PROVE IInv'
  OBVIOUS
<1>1. CASE tick
  <2>1. now' = now + 1 /\ now \in Int /\ UNCHANGED <<ahead, secret, tokens, call>>
    BY <1>1 DEF tick, IInv, ClockOK
  <2>2. \A t : Signed(t) => Signed(t)'
    BY <2>1 DEF Signed
  <2>3. ClockOK' /\ \A t \in tokens' : Signed(t)'
    BY <2>1, <2>2, TimeAssumption DEF IInv, ClockOK
  <2>4. Answered'
    BY <2>1, <2>2 DEF IInv, Answered, unwrap_or_zero
  <2> QED
    BY <2>3, <2>4 DEF IInv
<1>2. ASSUME NEW k \in Key, NEW a \in Instance \cup {None}, sign_token(k, a) \/ sign_other(k, a)
      PROVE  IInv'
  BY <1>2, SignInv
<1>3. ASSUME NEW m \in NodeMethod \cup InstanceMethod, NEW i \in Instance,
             NEW t \in tokens \cup {None}, handle(m, i, t)
      PROVE  IInv'
  BY <1>3, HandleInv
<1>4. CASE UNCHANGED vars
  BY <1>4 DEF vars, IInv, ClockOK, Answered, Signed, unwrap_or_zero
<1> QED
  BY <1>1, <1>2, <1>3, <1>4 DEF Next

\* The invariant holds in every reachable state.
THEOREM Invariance == Spec => []IInv
BY InitInv, NextInv, PTL DEF Spec

-----------------------------------------------------------------------------
(* The theorems *)

\* No handler lets a call pass whose token was made with another secret or for
\* another scope than its own.
THEOREM ScopeSafety == Spec => []AdmittedInScope
<1>1. IInv => AdmittedInScope
  BY DEF IInv, Answered, AdmittedInScope, Guarded, NodeMethod, InstanceMethod
<1> QED
  BY <1>1, Invariance, PTL

\* No handler lets a token pass after its life and the drift of the clocks, or
\* one that has no expiration.
THEOREM FreshSafety == Spec => []AdmittedFresh
<1>1. IInv => AdmittedFresh
  <2> SUFFICES ASSUME IInv, call # None, secret # None, call.ok
               PROVE  call.token.exp # None /\ call.at - call.token.at < Life + Drift
    BY DEF AdmittedFresh, Guarded
  <2>1. /\ call.token # None /\ call.at < unwrap_or_zero(call.token.exp)
        /\ Signed(call.token) /\ call.at \in Int /\ Start <= call.at
    BY DEF IInv, Answered
  <2>2. call.token.exp # None
    BY <2>1, TimeAssumption DEF unwrap_or_zero
  <2>3. call.at < call.token.at + ahead + Life /\ call.token.at \in Int
    BY <2>1, <2>2 DEF unwrap_or_zero, Signed
  <2>4. ahead \in Int /\ ahead <= Drift /\ Life \in Int /\ Drift \in Int
    BY TimeAssumption DEF IInv, ClockOK
  <2> QED
    BY <2>1, <2>2, <2>3, <2>4
<1> QED
  BY <1>1, Invariance, PTL

\* A handler refuses no token of its scope during its life, up to the drift of
\* the clocks.
THEOREM FreshAccepted == Spec => []FreshAdmitted
<1>1. IInv => FreshAdmitted
  <2> SUFFICES ASSUME IInv, call # None, secret # None, ~call.ok, call.token # None,
                      call.token.key = secret, call.token.exp # None,
                      call.token.aud = (IF call.method \in NodeMethod THEN None ELSE call.id)
               PROVE  ahead >= Skew \/ call.at - call.token.at >= Life - Drift
    BY DEF FreshAdmitted, Guarded
  <2>1. /\ Signed(call.token) /\ call.token.at <= call.at
        /\ call.at \in Int /\ Start <= call.at
    BY DEF IInv, Answered
  <2>2. ~ (call.at < unwrap_or_zero(call.token.exp) /\ call.at > unwrap_or_zero(call.token.nbf))
    BY DEF IInv, Answered
  <2>3. /\ call.token.at \in Int
        /\ call.token.exp = call.token.at + ahead + Life
        /\ call.token.nbf = call.token.at + ahead - Skew
    BY <2>1 DEF Signed
  <2>4. /\ ahead \in Int /\ ahead >= -Drift
        /\ Life \in Int /\ Drift \in Nat /\ Skew \in Nat /\ Start \in Int /\ Start > 0
    BY TimeAssumption DEF IInv, ClockOK
  <2>5. CASE call.at >= call.token.at + ahead + Life
    BY <2>1, <2>3, <2>4, <2>5
  <2>6. CASE call.at <= call.token.at + ahead - Skew
    BY <2>1, <2>3, <2>4, <2>6
  <2> QED
    BY <2>1, <2>2, <2>3, <2>4, <2>5, <2>6 DEF unwrap_or_zero
<1> QED
  BY <1>1, Invariance, PTL
=============================================================================
