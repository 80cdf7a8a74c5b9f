-------------------------------- MODULE KeyRing -------------------------------
(***************************************************************************)
(* What the signing keys promise to whoever holds a token: it can be       *)
(* verified for the Lifetime that the keys are kept for, but for the last  *)
(* Grace ticks of it, unless the server was stopped, which may withdraw    *)
(* any key.  An access token expires with that time; a refresh token lives *)
(* on, and the keys promise nothing for the rest of its life.              *)
(*                                                                         *)
(* The abstract specification that KeyRotation implements: files, caches,  *)
(* threads and the steps of a rotation are gone; what is left is the set   *)
(* of published keys, the key in use and the tokens.                       *)
(***************************************************************************)
EXTENDS Integers

CONSTANTS
    Keys,       \* identifiers of key pairs
    NoKey,      \* no key: nothing can be signed
    Lifetime,   \* ticks from its issue that a token is to be verified for
    Grace       \* ticks of them that a token may lose to a rotation

\* What the implementation's values for the constants have to satisfy.
RingParameters ==
    /\ NoKey \notin Keys
    /\ Lifetime \in Nat \ {0}
    /\ Grace \in Nat

VARIABLES
    published,  \* keys that tokens are verified with
    signing,    \* the key that new tokens are signed with
    tokens      \* tokens issued less than Lifetime ago, each with its key

ring == <<published, signing, tokens>>

Token == [key : Keys, left : 1..Lifetime]

RingTypeOK ==
    /\ published \subseteq Keys
    /\ signing \in Keys \union {NoKey}
    /\ tokens \subseteq Token

Init ==
    /\ published \subseteq Keys
    /\ signing \in published \union {NoKey}
    /\ tokens = {}

\* Keys are published, and a published key is put to use; or the key in use
\* is lost until the next choice.
Rotate ==
    /\ published' \in SUBSET Keys
    /\ published \subseteq published'
    /\ signing' \in published' \union {NoKey}
    /\ UNCHANGED tokens

\* Only with a key that is published.
Sign ==
    /\ signing \in published
    /\ tokens' = tokens \union {[key |-> signing, left |-> Lifetime]}
    /\ UNCHANGED <<published, signing>>

Older(T) == {[key |-> t.key, left |-> t.left - 1] : t \in {u \in T : u.left > 1}}

Tick ==
    /\ tokens' = Older(tokens)
    /\ signing' \in {signing, NoKey}
    /\ UNCHANGED published

\* Never the key in use, nor one that a token still needs.
Withdraw ==
    /\ published' \in SUBSET published
    /\ signing \in published' \union {NoKey}
    /\ \A t \in tokens : t.key \in published \ published' => t.left <= Grace
    /\ UNCHANGED <<signing, tokens>>

\* The server stops: keys go, and the tokens signed with them.
Cut ==
    /\ published' \in SUBSET published
    /\ signing' \in published' \union {NoKey}
    /\ tokens' = {t \in tokens : t.key \notin published \ published'}

Next == Rotate \/ Sign \/ Tick \/ Withdraw \/ Cut

Spec == Init /\ [][Next]_ring

\* Every token whose key is no longer published is in the last Grace ticks of
\* its Lifetime.  About the promise of services/managers/key_manager.py to
\* keep an old pair for as long as the access tokens signed with it live.
Honoured == \A t \in tokens : t.key \notin published => t.left <= Grace
===============================================================================
