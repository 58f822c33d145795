---------------------------- MODULE OneTimeSecrets ----------------------------
(***************************************************************************)
(* The pages that mint a secret and show it once: API keys of a tenant     *)
(* (Tenant/Credentials.tsx), ingest tokens (Telemetry/Tokens.tsx), license *)
(* keys (License/Keys.tsx) and the bootstrap of a new tenant.  A secret is *)
(* in one answer and in the dialogue it opens, nowhere else: an answer     *)
(* that is lost is a secret nobody knows.                                  *)
(***************************************************************************)
EXTENDS Integers, FiniteSets, Sequences

CONSTANTS Issuers,     \* the pages a run looks at, records of the form below
          Keys,        \* the keys, configurations or tenants secrets belong to
          MintSlots,   \* bound: RPCs that are out at once
          MaxSecrets   \* bound: secrets minted in all

ASSUME SecretAssumption == MaxSecrets \in Nat /\ IsFiniteSet(Keys) /\ "-" \notin Keys

VARIABLES issuer,     \* the page that is open
          valid,      \* what the service accepts: the secrets of each key it has
          disabled,   \* the keys that are switched off
          onPage,     \* the keys the page lists
          mints,      \* the RPCs that are out
          dialogues,  \* the secrets shown so far, in order
          minted,     \* bound counter, and the next secret
          revoked,    \* the secrets revoked by hand
          lost,       \* keys one of whose answers was lost
          crossed     \* keys two of whose RPCs were out at once

secretVars == <<issuer, valid, disabled, onPage, mints, dialogues, minted, revoked, lost, crossed>>

(***************************************************************************)
(* The pages.  renews: a row or the page can ask for another secret;       *)
(* replaces: the new secret takes the place of the old one (otherwise it   *)
(* is added and old ones are revoked one by one); switches: a key can be   *)
(* switched off; sole: there is one key, made with its first secret;       *)
(* deletes: a key can be deleted.                                          *)
(***************************************************************************)
CredentialsIssuer == [renews |-> TRUE,  replaces |-> TRUE,  switches |-> TRUE,  sole |-> FALSE, deletes |-> FALSE]
TokensIssuer      == [renews |-> TRUE,  replaces |-> FALSE, switches |-> FALSE, sole |-> TRUE, deletes |-> FALSE]
LicenseIssuer     == [renews |-> FALSE, replaces |-> FALSE, switches |-> TRUE,  sole |-> FALSE, deletes |-> TRUE]
BootstrapIssuer   == [renews |-> FALSE, replaces |-> FALSE, switches |-> FALSE, sole |-> FALSE, deletes |-> FALSE]

NoMint  == [key |-> "-", what |-> "none", secret |-> 0]
OutFor(k) == {m \in MintSlots : mints[m].key = k}
HasKeys == DOMAIN valid
KeysOut == {mints[m].key : m \in {n \in MintSlots : mints[n] # NoMint}}
NoSecret == 0

AskMint(k, what) ==
    /\ \E m \in MintSlots :
          /\ mints[m] = NoMint
          /\ mints' = [mints EXCEPT ![m] = [key |-> k, what |-> what, secret |-> NoSecret]]
    /\ crossed' = IF OutFor(k) # {} THEN crossed \cup {k} ELSE crossed

\* "New key": a key that is not there yet.  The page of the sole configuration offers
\* it while it lists none, which it does too before its first list is answered.
AskCreate(k) ==
    /\ k \notin onPage
    /\ issuer.sole => onPage = {} /\ HasKeys \subseteq {k} /\ KeysOut \subseteq {k}
    /\ ~issuer.sole => k \notin HasKeys /\ OutFor(k) = {}
    /\ AskMint(k, "create")
    /\ UNCHANGED <<issuer, valid, disabled, onPage, dialogues, minted, revoked, lost>>

AskRenew(k) ==
    /\ issuer.renews /\ k \in onPage
    /\ AskMint(k, "renew")
    /\ UNCHANGED <<issuer, valid, disabled, onPage, dialogues, minted, revoked, lost>>

\* The link that switches a key off or on.
SwitchKey(k) ==
    /\ issuer.switches /\ k \in onPage \cap HasKeys
    /\ disabled' = IF k \in disabled THEN disabled \ {k} ELSE disabled \cup {k}
    /\ UNCHANGED <<issuer, valid, onPage, mints, dialogues, minted, revoked, lost, crossed>>

\* Tokens are revoked by their prefix.
RevokeSecret(k, s) ==
    /\ issuer.renews /\ ~issuer.replaces
    /\ k \in onPage \cap HasKeys /\ s \in valid[k]
    /\ valid' = [valid EXCEPT ![k] = @ \ {s}]
    /\ revoked' = revoked \cup {s}
    /\ UNCHANGED <<issuer, disabled, onPage, mints, dialogues, minted, lost, crossed>>

DeleteKey(k) ==
    /\ issuer.deletes /\ k \in onPage \cap HasKeys
    /\ valid' = [h \in HasKeys \ {k} |-> valid[h]]
    /\ disabled' = disabled \ {k}
    /\ revoked' = revoked \cup valid[k]
    /\ UNCHANGED <<issuer, onPage, mints, dialogues, minted, lost, crossed>>

\* The list is answered: first, after a reload, or for another tenant's choice.
KeysArrive ==
    /\ onPage' = HasKeys /\ onPage # HasKeys
    /\ UNCHANGED <<issuer, valid, disabled, mints, dialogues, minted, revoked, lost, crossed>>

(***************************************************************************)
(* The service.  It makes a key once, and renews one it has.               *)
(***************************************************************************)
Mint(m) ==
    LET q == mints[m] IN
    /\ q # NoMint /\ q.secret = NoSecret /\ minted < MaxSecrets
    /\ (q.what = "create") = (q.key \notin HasKeys)
    /\ minted' = minted + 1
    /\ valid' = [k \in HasKeys \cup {q.key} |->
                   IF k # q.key THEN valid[k]
                   ELSE IF k \in HasKeys /\ ~issuer.replaces THEN valid[k] \cup {minted + 1}
                   ELSE {minted + 1}]
    /\ mints' = [mints EXCEPT ![m].secret = minted + 1]
    /\ UNCHANGED <<issuer, disabled, onPage, dialogues, revoked, lost, crossed>>

\* Slip: the dialogue does not wait for the answer and shows the last secret it had.
MintAnsweredEarly(m) ==
    LET q == mints[m] IN
    /\ q # NoMint /\ minted > 0
    /\ dialogues' = Append(dialogues, [key |-> q.key, secret |-> minted])
    /\ mints' = [mints EXCEPT ![m] = NoMint]
    /\ UNCHANGED <<issuer, valid, disabled, onPage, minted, revoked, lost, crossed>>

\* The answer: its secret is shown, on top of the dialogues that are open.
MintAnswered(m) ==
    LET q == mints[m] IN
    /\ q # NoMint /\ q.secret # NoSecret
    /\ dialogues' = Append(dialogues, [key |-> q.key, secret |-> q.secret])
    /\ mints' = [mints EXCEPT ![m] = NoMint]
    /\ UNCHANGED <<issuer, valid, disabled, onPage, minted, revoked, lost, crossed>>

\* Refused, or the answer did not come: if the service had minted, nobody knows.
MintFails(m) ==
    LET q == mints[m] IN
    /\ q # NoMint
    /\ mints' = [mints EXCEPT ![m] = NoMint]
    /\ lost' = IF q.secret # NoSecret THEN lost \cup {q.key} ELSE lost
    /\ UNCHANGED <<issuer, valid, disabled, onPage, dialogues, minted, revoked, crossed>>

SecretInit ==
    /\ issuer \in Issuers
    /\ valid = <<>> /\ disabled = {} /\ onPage = {}
    /\ mints = [m \in MintSlots |-> NoMint]
    /\ dialogues = <<>>
    /\ minted = 0 /\ revoked = {}
    /\ lost = {} /\ crossed = {}

SecretNext ==
    \/ KeysArrive
    \/ \E k \in Keys : \/ AskCreate(k) \/ AskRenew(k) \/ SwitchKey(k) \/ DeleteKey(k)
                       \/ \E s \in 1 .. MaxSecrets : RevokeSecret(k, s)
    \/ \E m \in MintSlots : Mint(m) \/ MintAnswered(m) \/ MintFails(m)

SecretSpec == SecretInit /\ [][SecretNext]_secretVars

(***************************************************************************)
(* Properties.                                                             *)
(***************************************************************************)
\* What each variable may hold.
SecretTypeOK ==
    /\ issuer \in Issuers
    /\ HasKeys \subseteq Keys /\ \A k \in HasKeys : valid[k] \subseteq 1 .. minted
    /\ disabled \subseteq HasKeys /\ onPage \subseteq Keys
    /\ \A m \in MintSlots : mints[m].key \in Keys \cup {"-"} /\ mints[m].secret \in 0 .. minted
    /\ dialogues \in Seq([key : Keys, secret : 1 .. minted])
    /\ revoked \subseteq 1 .. minted /\ lost \subseteq Keys /\ crossed \subseteq Keys

ShownAt(k)   == {i \in DOMAIN dialogues : dialogues[i].key = k}
LastShown(k) == dialogues[CHOOSE i \in ShownAt(k) : \A j \in ShownAt(k) : i >= j].secret

\* "the old secret is invalid at once" (Credentials.tsx:142) and the new one is shown
\* only once: the secret last shown for a key is the one the service accepts, unless
\* two renewals crossed, an answer was lost or one is out.  Where a renewal adds a
\* secret (Tokens.tsx:161), every secret shown and not revoked is accepted, whatever
\* crossed or was lost.
ShownSecretsWork ==
    IF issuer.replaces
    THEN \A k \in HasKeys \ (lost \cup crossed) :
            ShownAt(k) # {} /\ OutFor(k) = {} => valid[k] = {LastShown(k)}
    ELSE \A i \in DOMAIN dialogues :
            LET d == dialogues[i] IN
            d.secret \in revoked \/ (d.key \in HasKeys /\ d.secret \in valid[d.key])
=============================================================================
