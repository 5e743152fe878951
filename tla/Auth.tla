-------------------------------- MODULE Auth ---------------------------------
(***************************************************************************)
(* Who may call the node manager: proto/src/auth.rs and validate_auth of   *)
(* manager.rs, with the audience each handler asks for.                    *)
(*                                                                         *)
(* A token is signed on another host, whose clock may be off by up to      *)
(* Drift, and presented later.  Signatures are perfect: a token verifies   *)
(* under the key it was signed with.                                       *)
(***************************************************************************)
EXTENDS Integers, FiniteSets

CONSTANTS Instance,   \* instance ids
          Key,        \* secrets
          Life,       \* validity of a signed token, 3600 s in the code
          Skew,       \* how far not_before lies in the past, 60 s in the code
          Drift,      \* difference of the clocks, at most
          Start,      \* unix time at the beginning
          MaxTime,    \* bound: last instant
          MaxTokens,  \* bound: tokens signed
          None

ASSUME TimeAssumption ==
    /\ Life \in Nat \ {0} /\ Skew \in Nat /\ Drift \in Nat
    /\ Start \in Nat /\ Start > Skew + Drift /\ MaxTime \in Nat /\ MaxTokens \in Nat
ASSUME NoneAssumption == None \notin Instance \cup Key

VARIABLES
    now,     \* the node's clock
    ahead,   \* what the signer's clock is ahead of it
    secret,  \* the node's secret, or None
    tokens,  \* tokens signed so far; at is history
    call     \* the last call: method, instance, token and answer, or None

vars == <<now, ahead, secret, tokens, call>>

NodeMethod == {"provision", "list_instances", "drain"}
InstanceMethod == {"deprovision", "stream_logs", "get_logs", "publish_service_port"}

unwrap_or_zero(t) == IF t = None THEN 0 ELSE t

\* Faulty variant: a token without an end does not end.
ValidateWithoutEnd(token, key, expected_audience) ==
    /\ token.key = key
    /\ expected_audience = token.aud
    /\ (token.exp = None \/ now < token.exp) /\ now > unwrap_or_zero(token.nbf)

\* Faulty variant: clocks have to agree.
ValidateIssuedBefore(token, key, expected_audience) ==
    /\ token.key = key
    /\ expected_audience = token.aud
    /\ now < unwrap_or_zero(token.exp) /\ now > unwrap_or_zero(token.nbf) + Skew

\* Signature, audience and validity.
validate_authentication(token, key, expected_audience) ==
    /\ token.key = key
    /\ expected_audience = token.aud
    /\ now < unwrap_or_zero(token.exp) /\ now > unwrap_or_zero(token.nbf)

\* Without a secret every call passes; a call without a token has None.
validate_auth(token, expected_audience) ==
    \/ secret = None
    \/ token # None /\ validate_authentication(token, secret, expected_audience)

\* Faulty variant: reading logs asks for no instance.
AudienceOfLogs(method, id) == IF method \in NodeMethod \cup {"get_logs"} THEN None ELSE id

\* What each handler gives validate_auth.
expected_audience(method, id) == IF method \in NodeMethod THEN None ELSE id

-----------------------------------------------------------------------------
\* sign_token on the signer's clock.
sign_token(key, aud) ==
    /\ Cardinality(tokens) < MaxTokens
    /\ LET t == now + ahead IN
       tokens' = tokens \cup {[key |-> key, aud |-> aud, exp |-> t + Life, nbf |-> t - Skew,
                               at |-> now]}
    /\ UNCHANGED <<now, ahead, secret, call>>

\* Another holder of a key signs a token without times.
sign_other(key, aud) ==
    /\ Cardinality(tokens) < MaxTokens
    /\ tokens' = tokens \cup {[key |-> key, aud |-> aud, exp |-> None, nbf |-> None, at |-> now]}
    /\ UNCHANGED <<now, ahead, secret, call>>

\* A handler's first line.
handle(method, id, token) ==
    /\ call' = [method |-> method, id |-> id, token |-> token,
                ok |-> validate_auth(token, expected_audience(method, id)), at |-> now]
    /\ UNCHANGED <<now, ahead, secret, tokens>>

tick ==
    /\ now < MaxTime /\ now' = now + 1
    /\ UNCHANGED <<ahead, secret, tokens, call>>

Init ==
    /\ now = Start
    /\ ahead \in -Drift .. Drift
    /\ secret \in Key \cup {None}
    /\ tokens = {} /\ call = None

Next ==
    \/ tick
    \/ \E k \in Key, a \in Instance \cup {None} : sign_token(k, a) \/ sign_other(k, a)
    \/ \E m \in NodeMethod \cup InstanceMethod, i \in Instance, t \in tokens \cup {None} :
           handle(m, i, t)

Spec == Init /\ [][Next]_vars

-----------------------------------------------------------------------------
(* Properties *)

Guarded == call # None /\ secret # None

\* A call gets through only with a token made with the node's secret for
\* exactly its scope: the instance it names, or the node as a whole.
AdmittedInScope ==
    Guarded /\ call.ok =>
        /\ call.token # None /\ call.token.key = secret
        /\ call.method \in InstanceMethod => call.token.aud = call.id
        /\ call.method \in NodeMethod => call.token.aud = None

\* And only while the token lives, measured between clocks that differ by at
\* most Drift; a token without an expiration never gets through (auth.rs:31).
AdmittedFresh ==
    Guarded /\ call.ok => call.token.exp # None /\ call.at - call.token.at < Life + Drift

\* A token of the right scope is good from the moment it is signed, as long as
\* the clocks differ by less than Skew, until Drift before its life is over.
FreshAdmitted ==
    /\ Guarded /\ ~call.ok /\ call.token # None
    /\ call.token.key = secret /\ call.token.exp # None
    /\ call.token.aud = (IF call.method \in NodeMethod THEN None ELSE call.id)
    => ahead >= Skew \/ call.at - call.token.at >= Life - Drift
=============================================================================
