------------------------------- MODULE Access -------------------------------
(***************************************************************************)
(* Who may use the gateway: wallet challenges (services/walletAuth.ts), API *)
(* keys (services/apiKeys.ts, routes/keys.ts), access grants and the        *)
(* waitlist (services/accessGrants.ts, routes/access.ts), and the browsers  *)
(* that sign in against them (web/app/admin, web/components/landing,        *)
(* web/lib/gate.ts).  Every await of a handler is a step of its own, so     *)
(* requests of several browsers interleave between them.                    *)
(***************************************************************************)
EXTENDS Naturals, Sequences, FiniteSets, SequencesExt

CONSTANTS Wallets, AllowList, AdminWallets,  \* wallets; API_KEY_ALLOWLIST; ADMIN_WALLETS
          Browsers,                          \* tabs that sign in, one request in flight each
          MaxKeysPerOwner,                   \* MAX_KEYS_PER_OWNER
          CookieLife,                        \* WALLET_COOKIE_MAX_AGE_S, in days
          Scenes,                            \* which flows run together: keys, panel, site
          MaxChallenges, MaxAudit, MaxDay    \* bounds

\* The bounds leave room for a second day and for the approvals the log starts with
ASSUME AccessConstants ==
    /\ AllowList \subseteq Wallets /\ AdminWallets \subseteq Wallets
    /\ {MaxKeysPerOwner, CookieLife, MaxChallenges} \subseteq Nat \ {0}
    /\ MaxAudit \in Nat /\ MaxDay \in Nat \ {0} /\ Scenes \subseteq {"keys", "panel", "site"}
    /\ IsFiniteSet(Wallets) /\ IsFiniteSet(Browsers) /\ Cardinality(Wallets) <= MaxAudit

VARIABLES scene,        \* the flows followed in this behaviour
          grants,       \* access_grants.status per wallet ("none": no row)
          email, sent,  \* access_grants.email is set; email_sent_at is set
          mails,        \* approval mails accepted for delivery
          audit,        \* access_audit_log: <<action, wallet>>
          pending,      \* WalletAuth.pending of the key flow and of the unlock flow
          issued,       \* challenges issued so far (each is fresh random bytes)
          keys,         \* api_keys
          session,      \* sessionAuthStore per browser: index into keys, 0 when signed out
          req,          \* the request of each browser
          cookie,       \* day of issue of the v2 cookie of a wallet, or Never
          day, revokedDay

grantVars == <<grants, email, sent, mails, audit, revokedDay>>
keyVars == <<keys, session>>
accessVars == <<scene, grantVars, pending, issued, keyVars, req, cookie, day>>

Flows == {"key", "unlock"}
Never == 0
Idle == [pc |-> "idle", wallet |-> CHOOSE w \in Wallets : TRUE, ch |-> 0, label |-> "none", todo |-> {}]
Statuses == {"none", "pending", "approved", "rejected", "revoked"}

Key(w, ch, label) == [owner |-> w, ch |-> ch, label |-> label, revoked |-> FALSE]

\* The key flow starts with nobody signed in; in the other flows each browser already is
SignedIn ==
    \E who \in [Browsers -> Wallets] :
        /\ \A b \in Browsers : grants[who[b]] = "approved" \/ who[b] \in AdminWallets
        /\ LET at == SetToSeq(Browsers) IN
             /\ keys = [i \in 1..Cardinality(Browsers) |-> Key(who[at[i]], i, "referral-dashboard")]
             /\ session = [b \in Browsers |-> CHOOSE i \in DOMAIN at : at[i] = b]
    /\ issued = Cardinality(Browsers)

AccessInit ==
    /\ scene \in Scenes
    /\ grants \in [Wallets -> {"none", "approved"}] /\ (scene = "site" => \A w \in Wallets : grants[w] = "none")
    /\ audit = SetToSeq({<<"approve", w>> : w \in {v \in Wallets : grants[v] = "approved"}})
    /\ email = [w \in Wallets |-> FALSE] /\ sent = [w \in Wallets |-> FALSE] /\ mails = [w \in Wallets |-> 0]
    /\ pending = [f \in Flows |-> [w \in Wallets |-> 0]] /\ req = [b \in Browsers |-> Idle]
    /\ IF scene = "keys" THEN keys = <<>> /\ session = [b \in Browsers |-> 0] /\ issued = 0 ELSE SignedIn
    /\ cookie = [w \in Wallets |-> Never] /\ day = 1 /\ revokedDay = [w \in Wallets |-> Never]

----------------------------------------------------------------------------
(***************************************************************************)
(* Challenges.                                                             *)
(***************************************************************************)
\* issueChallenge: the newest challenge of a wallet replaces the one before it
IssueChallenge(f, w) ==
    /\ issued < MaxChallenges /\ issued' = issued + 1
    /\ pending' = [pending EXCEPT ![f][w] = issued + 1]

\* verify spends the wallet's challenge whether or not the proof fits it
VerifyKeeping(f, w) == UNCHANGED pending
Verify(f, w) == pending' = [pending EXCEPT ![f][w] = 0]
ProofFits(f, w, ch) == pending[f][w] = ch

\* gc: five minutes pass
Expire(f, w) ==
    /\ pending[f][w] # 0 /\ pending' = [pending EXCEPT ![f][w] = 0]
    /\ UNCHANGED <<grantVars, issued, keyVars, req, cookie, day>>

Goto(b, pc) == req' = [req EXCEPT ![b].pc = pc]
Finish(b) == req' = [req EXCEPT ![b] = Idle]

\* signChallengeWithWallet: the browser fetches a challenge and its wallet signs it
SignChallenge(b, f, w, label) ==
    /\ req[b].pc = "idle" /\ IssueChallenge(f, w)
    /\ req' = [req EXCEPT ![b] = [Idle EXCEPT !.pc = f, !.wallet = w, !.ch = issued + 1, !.label = label]]
    /\ UNCHANGED <<grantVars, keyVars, cookie, day>>

AdminSignIn(b, w) == session[b] = 0 /\ SignChallenge(b, "key", w, "admin-panel")
ReferralSignIn(b, w) == session[b] = 0 /\ SignChallenge(b, "key", w, "referral-dashboard")
Unlock(b, w) == SignChallenge(b, "unlock", w, "none")

\* The network delivers a signed POST /v1/keys a second time
PostedAgain(b, c) ==
    /\ req[b].pc = "idle" /\ req[c].pc = "verify"
    /\ req' = [req EXCEPT ![b] = [req[c] EXCEPT !.pc = "key"]]
    /\ UNCHANGED <<grantVars, pending, issued, keyVars, cookie, day>>

----------------------------------------------------------------------------
(***************************************************************************)
(* POST /v1/keys.                                                          *)
(***************************************************************************)
IsApproved(w) == grants[w] = "approved"
InBeta(w) == w \in AllowList \/ w \in AdminWallets \/ IsApproved(w)

Live(i) == ~keys[i].revoked
LiveKeys(w) == {i \in DOMAIN keys : keys[i].owner = w /\ Live(i)}

BetaGate(b) ==
    /\ req[b].pc = "key"
    /\ IF InBeta(req[b].wallet) THEN Goto(b, "verify") ELSE Finish(b)
    /\ UNCHANGED <<grantVars, pending, issued, keyVars, cookie, day>>

VerifyKeyProof(b) ==
    /\ req[b].pc = "verify" /\ Verify("key", req[b].wallet)
    /\ IF ~ProofFits("key", req[b].wallet, req[b].ch) THEN Finish(b)
       ELSE Goto(b, IF req[b].label = "admin-panel" THEN "retire" ELSE "count")
    /\ UNCHANGED <<grantVars, issued, keyVars, cookie, day>>

\* revokeAllWithLabel: a session label keeps one key
RevokeAllWithLabel(b) ==
    /\ req[b].pc = "retire" /\ Goto(b, "count")
    /\ keys' = [i \in DOMAIN keys |->
                  IF keys[i].owner = req[b].wallet /\ keys[i].label = req[b].label
                  THEN [keys[i] EXCEPT !.revoked = TRUE] ELSE keys[i]]
    /\ UNCHANGED <<grantVars, pending, issued, session, cookie, day>>

AtLimit(w) == Cardinality(LiveKeys(w)) >= MaxKeysPerOwner

CountActive(b) ==
    /\ req[b].pc = "count"
    /\ IF AtLimit(req[b].wallet) THEN Finish(b) ELSE Goto(b, "issue")
    /\ UNCHANGED <<grantVars, pending, issued, keyVars, cookie, day>>

\* issue, and setAuth when the answer reaches the browser
Issue(b) ==
    /\ req[b].pc = "issue" /\ Finish(b)
    /\ keys' = Append(keys, Key(req[b].wallet, req[b].ch, req[b].label))
    /\ session' \in {session, [session EXCEPT ![b] = Len(keys) + 1]}
    /\ UNCHANGED <<grantVars, pending, issued, cookie, day>>

\* lookupForAuth: a key authenticates while its row is not revoked
LookupForAuth(b) == session[b] # 0 /\ Live(session[b])

\* DELETE /v1/keys/:keyId
Revoke(b, i) ==
    /\ LookupForAuth(b) /\ i \in LiveKeys(keys[session[b]].owner)
    /\ keys' = [keys EXCEPT ![i].revoked = TRUE]
    /\ UNCHANGED <<grantVars, pending, issued, session, req, cookie, day>>

\* signOutAndRevoke: the session is forgotten, its key revoked when the gateway answers
SignOutAndRevoke(b) ==
    /\ session[b] # 0 /\ session' = [session EXCEPT ![b] = 0]
    /\ keys' \in {keys, [keys EXCEPT ![session[b]].revoked = TRUE]}
    /\ UNCHANGED <<grantVars, pending, issued, req, cookie, day>>

----------------------------------------------------------------------------
(***************************************************************************)
(* Unlocking the site.                                                     *)
(***************************************************************************)
VerifyUnlockProof(b) ==
    /\ req[b].pc = "unlock" /\ Verify("unlock", req[b].wallet)
    /\ IF ProofFits("unlock", req[b].wallet, req[b].ch) THEN Goto(b, "approved?") ELSE Finish(b)
    /\ UNCHANGED <<grantVars, issued, keyVars, cookie, day>>

CheckApproved(b) ==
    /\ req[b].pc = "approved?"
    /\ IF IsApproved(req[b].wallet) THEN Goto(b, "cookie") ELSE Finish(b)
    /\ UNCHANGED <<grantVars, pending, issued, keyVars, cookie, day>>

MakeWalletCookie(b) ==
    /\ req[b].pc = "cookie" /\ Finish(b) /\ cookie' = [cookie EXCEPT ![req[b].wallet] = day]
    /\ UNCHANGED <<grantVars, pending, issued, keyVars, day>>

\* verifyGateCookie
VerifyGateCookie(w) == cookie[w] # Never /\ day <= cookie[w] + CookieLife

\* middleware: the site opens to a valid cookie
MayEnter(w) == VerifyGateCookie(w)

\* A day passes; a request lasts seconds
NextDay ==
    /\ day < MaxDay /\ day' = day + 1 /\ \A b \in Browsers : req[b].pc \notin {"approved?", "cookie"}
    /\ UNCHANGED <<grantVars, pending, issued, keyVars, req, cookie>>

----------------------------------------------------------------------------
(***************************************************************************)
(* The waitlist and the administrators.                                    *)
(***************************************************************************)
\* join: the first write wins
Join(w) ==
    /\ grants[w] = "none" /\ grants' = [grants EXCEPT ![w] = "pending"]
    /\ email' \in {email, [email EXCEPT ![w] = TRUE]}
    /\ UNCHANGED <<sent, mails, audit, revokedDay, pending, issued, keyVars, req, cookie, day>>

\* POST /v1/waitlist: refused without the eligibility attestation
PostWaitlist(w, attest) == attest /\ Join(w)

RequireAdmin(b) == LookupForAuth(b) /\ keys[session[b]].owner \in AdminWallets

StatusAfter == [approve |-> "approved", reject |-> "rejected", revoke |-> "revoked"]

\* Rows the decision touches: approve also inserts, the others only update
Touched(ws, a) == IF a = "approve" THEN ws ELSE {w \in ws : grants[w] # "none"}

Logged(a, ws) == audit \o SetToSeq({<<a, w>> : w \in ws})
DecisionLog(a, ws) == Logged(a, ws)

\* decide: one transaction; a failure rolls all of it back (no step)
Decide(b, ws, a) ==
    LET done == Touched(ws, a) IN
    /\ RequireAdmin(b) /\ req[b].pc = "idle" /\ Len(audit) + Cardinality(done) <= MaxAudit
    /\ grants' = [w \in Wallets |-> IF w \in done THEN StatusAfter[a] ELSE grants[w]]
    /\ revokedDay' = [w \in Wallets |-> IF w \notin done THEN revokedDay[w] ELSE IF a = "approve" THEN Never ELSE day]
    /\ audit' = DecisionLog(a, done)
    /\ req' = IF a = "approve" /\ done # {} THEN [req EXCEPT ![b] = [Idle EXCEPT !.pc = "mail", !.todo = done]] ELSE req
    /\ UNCHANGED <<email, sent, mails, pending, issued, keyVars, cookie, day>>

\* act: the panel posts the wallets the administrator selected
Act(b, ws, a) == session[b] # 0 /\ ws # {} /\ Decide(b, ws, a)

\* The mail loop after the commit: read the grant, send, mark
NeedsMail(w) == email[w] /\ ~sent[w]
ReadGrant(b) ==
    /\ req[b].pc = "mail"
    /\ \E w \in req[b].todo :
         req' = [req EXCEPT ![b] = IF NeedsMail(w) THEN [@ EXCEPT !.pc = "send", !.wallet = w]
                                   ELSE IF @.todo = {w} THEN Idle ELSE [@ EXCEPT !.todo = req[b].todo \ {w}]]
    /\ UNCHANGED <<grantVars, pending, issued, keyVars, cookie, day>>

NextMail(b) ==
    req' = [req EXCEPT ![b] = IF @.todo = {@.wallet} THEN Idle ELSE [@ EXCEPT !.pc = "mail", !.todo = req[b].todo \ {req[b].wallet}]]

MarkAfter(b, accepted) == IF accepted THEN Goto(b, "mark") ELSE NextMail(b)
AfterSend(b, accepted) == MarkAfter(b, accepted)

SendApproval(b) ==
    /\ req[b].pc = "send"
    /\ \E accepted \in BOOLEAN :
         /\ mails' = IF accepted THEN [mails EXCEPT ![req[b].wallet] = @ + 1] ELSE mails
         /\ AfterSend(b, accepted)
    /\ UNCHANGED <<grants, email, sent, audit, revokedDay, pending, issued, keyVars, cookie, day>>

MarkEmailSent(b) ==
    /\ req[b].pc = "mark" /\ sent' = [sent EXCEPT ![req[b].wallet] = TRUE] /\ NextMail(b)
    /\ UNCHANGED <<grants, email, mails, audit, revokedDay, pending, issued, keyVars, cookie, day>>

Forget(b, w) ==
    /\ RequireAdmin(b) /\ req[b].pc = "idle" /\ grants[w] # "none" /\ Len(audit) < MaxAudit
    /\ email' = [email EXCEPT ![w] = FALSE] /\ sent' = [sent EXCEPT ![w] = FALSE]
    /\ audit' = Append(audit, <<"forget_email", w>>)
    /\ UNCHANGED <<grants, mails, revokedDay, pending, issued, keyVars, req, cookie, day>>

\* The gateway restarts: challenges and requests in memory are gone
Restart ==
    /\ pending' = [f \in Flows |-> [w \in Wallets |-> 0]] /\ req' = [b \in Browsers |-> Idle]
    /\ UNCHANGED <<grantVars, issued, keyVars, cookie, day>>

----------------------------------------------------------------------------
KeyStep ==
    \/ \E b \in Browsers : \/ \E w \in Wallets : AdminSignIn(b, w) \/ ReferralSignIn(b, w)
                           \/ BetaGate(b) \/ VerifyKeyProof(b) \/ RevokeAllWithLabel(b) \/ CountActive(b) \/ Issue(b)
                           \/ \E i \in DOMAIN keys : Revoke(b, i)
                           \/ SignOutAndRevoke(b) \/ \E c \in Browsers : PostedAgain(b, c)
    \/ \E w \in Wallets : Expire("key", w)

PanelStep ==
    \/ \E b \in Browsers : \/ \E ws \in SUBSET Wallets, a \in DOMAIN StatusAfter : Act(b, ws, a)
                           \/ ReadGrant(b) \/ SendApproval(b) \/ MarkEmailSent(b)
                           \/ \E w \in Wallets : Forget(b, w)
    \/ \E w \in Wallets, attest \in BOOLEAN : PostWaitlist(w, attest)

SiteStep ==
    \/ \E b \in Browsers : \/ \E w \in Wallets : Unlock(b, w)
                           \/ VerifyUnlockProof(b) \/ CheckApproved(b) \/ MakeWalletCookie(b)
                           \/ \E w \in Wallets, a \in DOMAIN StatusAfter : Act(b, {w}, a)
                           \/ ReadGrant(b)
    \/ \E w \in Wallets : Expire("unlock", w)
    \/ NextDay

AccessNext ==
    /\ scene' = scene
    /\ \/ scene = "keys" /\ KeyStep
       \/ scene = "panel" /\ PanelStep
       \/ scene = "site" /\ SiteStep
       \/ Restart

AccessSpec == AccessInit /\ [][AccessNext]_accessVars

----------------------------------------------------------------------------
AccessTypeOK ==
    /\ grants \in [Wallets -> Statuses] /\ email \in [Wallets -> BOOLEAN] /\ sent \in [Wallets -> BOOLEAN]
    /\ Len(audit) <= MaxAudit /\ day \in 1..MaxDay /\ cookie \in [Wallets -> 0..day]
    /\ \A i \in DOMAIN keys : keys[i].ch \in 1..issued
    /\ \A b \in Browsers : session[b] \in 0..Len(keys)

\* Every key was paid for with a challenge of its own: a signed challenge buys one key, however
\* many tabs post it, and one that was replaced, expired or lost in a restart buys none
OneKeyPerChallenge == \A i, j \in DOMAIN keys : keys[i].ch = keys[j].ch => i = j

\* The cap on keys per wallet is read before the insert and not with it: requests that overlap
\* may all pass the count, so the wallet exceeds the cap by at most one key per other request
KeyCap == \A w \in Wallets : Cardinality(LiveKeys(w)) <= MaxKeysPerOwner + Cardinality(Browsers) - 1

\* Only a wallet that is listed, an administrator, or was approved by a logged decision ever
\* holds a key or a site cookie
OnlyTheApproved ==
    LET approvedOnce == {w \in Wallets : <<"approve", w>> \in Range(audit)} IN
    /\ \A i \in DOMAIN keys : keys[i].owner \in AllowList \cup AdminWallets \cup approvedOnce
    /\ \A w \in Wallets : cookie[w] # Never => w \in approvedOnce

\* The audit log tells the status of every wallet: its last decision in the log is its status
AuditTellsStatus ==
    \A w \in Wallets :
        LET mine == {i \in DOMAIN audit : audit[i][2] = w /\ audit[i][1] \in DOMAIN StatusAfter}
        IN  IF mine = {} THEN grants[w] \in {"none", "pending"}
            ELSE \E last \in mine : grants[w] = StatusAfter[audit[last][1]] /\ \A i \in mine : i <= last

\* A grant marked as mailed was mailed, and no decision mails a wallet twice
MailMarkTruthful ==
    \A w \in Wallets :
        /\ sent[w] => mails[w] > 0
        /\ mails[w] <= Cardinality({i \in DOMAIN audit : audit[i] = <<"approve", w>>})

\* A wallet whose access was withdrawn ages out of the site within the life of its cookie
AgesOut ==
    \A w \in Wallets : MayEnter(w) /\ revokedDay[w] # Never => day <= revokedDay[w] + CookieLife

\* What the access desk guards: keys, decisions, mails and site visits, however requests overlap
\* and the gateway restarts (walletAuth.ts, apiKeys.ts, accessGrants.ts, web/lib/gate.ts)
AccessSafe ==
    /\ AccessTypeOK /\ OneKeyPerChallenge /\ KeyCap /\ OnlyTheApproved
    /\ AuditTellsStatus /\ MailMarkTruthful /\ AgesOut
=============================================================================
