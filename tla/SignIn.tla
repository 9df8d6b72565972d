------------------------------- MODULE SignIn -------------------------------
(***************************************************************************)
(* Signing in with Google and paying with the key that sign-in made:       *)
(* frontend/src/services/zklogin.ts, pages/ZkLoginCallbackPage.tsx and the *)
(* sign-in gateway src/zklogin/server.js.  A tab keeps its ephemeral key   *)
(* in its own sessionStorage, all tabs share the session in localStorage,  *)
(* and the gateway keeps the exchanges of authorization codes in memory.   *)
(*                                                                         *)
(* A login is a number: it names its key, its randomness, its OIDC nonce,  *)
(* its signed state and its code, which are made together.  Google, the    *)
(* prover, the wallet extension and the chain are external: a code can be  *)
(* redeemed once, a proof is made only for the key whose nonce the token   *)
(* carries, and the chain takes a signature only with a fitting proof.     *)
(***************************************************************************)
EXTENDS Integers, FiniteSets

CONSTANTS
    Tabs,       \* places for a tab of the browser
    Accounts,   \* accounts of the wallet extension
    Ahead,      \* VITE_ZK_MAX_EPOCH
    MaxLogins,  \* bound: logins begun
    Signers,    \* bound: the tabs in which logins are begun
    LastEpoch,  \* bound: the chain's epochs
    MaxFaults   \* bound: gateway restarts, lost answers, reloads, new tabs

ASSUME SignInAssumption ==
    /\ {Ahead, MaxLogins, LastEpoch, MaxFaults} \subseteq Nat
    /\ Signers \subseteq Tabs /\ {"none", "gone"} \cap Tabs = {}

VARIABLES
    tab,       \* what each tab shows, knows and keeps
    local,     \* localStorage: the session
    login,     \* the tab and the last epoch of each login begun
    gateway,   \* of each login: the memorized exchange and those under way
    google,    \* of each login: consent, redemptions asked for and made
    expired,   \* logins whose signed state is older than ten minutes
    epoch,     \* the chain's epoch
    payment,   \* the payment under way
    faults     \* what went wrong so far

pageVars == <<tab, local>>
vars == <<tab, local, login, gateway, google, expired, epoch, payment,
          faults>>

Logins == 1 .. MaxLogins
None == 0
Gone == "gone"

NoSession == [mode |-> "none"]
NoPayment == [tab |-> Gone]
Begun == {l \in Logins : login[l].tab # "none"}

FreshTab == [page |-> "app", login |-> None, key |-> None,
             session |-> NoSession]

Init ==
    /\ tab = [t \in Tabs |-> FreshTab]
    /\ local = NoSession
    /\ login = [l \in Logins |-> [tab |-> "none", last |-> 0]]
    /\ gateway = [l \in Logins |-> [memo |-> "none", open |-> 0]]
    /\ google = [l \in Logins |->
                    [consent |-> FALSE, asked |-> 0, redeemed |-> FALSE]]
    /\ expired = {}
    /\ epoch = 0
    /\ payment = NoPayment
    /\ faults = [restart |-> 0, lost |-> 0, user |-> 0]

FaultsLeft == faults.restart + faults.lost + faults.user < MaxFaults
Fault(kind) == FaultsLeft /\ faults' = [faults EXCEPT ![kind] = @ + 1]

Shows(t, page) == tab' = [tab EXCEPT ![t].page = page]
Services == <<login, gateway, google, expired, epoch>>

-----------------------------------------------------------------------------
(* To Google and back.                                                     *)

\* The last epoch of a key: absolute, or a small literal when the chain's
\* epoch could not be read.
LastEpochs == {epoch + Ahead, Ahead}

\* beginZkLogin: the key of the tab is replaced before the gateway is asked.
Begin(t) ==
    /\ t \in Signers
    /\ tab[t].page = "app"
    /\ Begun # Logins
    /\ LET l == Cardinality(Begun) + 1
       IN  /\ tab' = [tab EXCEPT ![t].page = "leaving", ![t].login = l,
                                 ![t].key = l]
           /\ \E last \in LastEpochs :
                 login' = [login EXCEPT ![l] = [tab |-> t, last |-> last]]
    /\ UNCHANGED <<local, gateway, google, expired, epoch, payment, faults>>

Unloads(t) ==
    payment' = IF payment.tab = t THEN NoPayment ELSE payment

\* The gateway answers with Google's address, and the page goes there.
Authorize(t) ==
    /\ tab[t].page = "leaving"
    /\ Shows(t, "google")
    /\ Unloads(t)
    /\ UNCHANGED <<local, Services, faults>>

\* It does not answer: the login page shows the error; the new key stays.
AuthorizeFails(t) ==
    /\ tab[t].page = "leaving"
    /\ tab' = [tab EXCEPT ![t].page = "app", ![t].login = None]
    /\ UNCHANGED <<local, Services, payment, faults>>

\* The history of the tab: back to the application, or to a Google page of an
\* earlier login of this tab.
GoBack(t) ==
    /\ tab[t].page \in {"google", "error"}
    /\ tab' = [tab EXCEPT ![t].page = "app", ![t].login = None,
                          ![t].session = local]
    /\ UNCHANGED <<local, Services, payment, faults>>

Revisit(t, l) ==
    /\ tab[t].page = "app"
    /\ login[l].tab = t /\ ~google[l].consent
    /\ Fault("user")
    /\ tab' = [tab EXCEPT ![t].page = "google", ![t].login = l]
    /\ Unloads(t)
    /\ UNCHANGED <<local, Services>>

\* Google sends the tab back with a code, or without one.
Consent(t) ==
    /\ tab[t].page = "google" /\ ~google[tab[t].login].consent
    /\ google' = [google EXCEPT ![tab[t].login].consent = TRUE]
    /\ tab' = [tab EXCEPT ![t].page = "callback", ![t].session = local]
    /\ UNCHANGED <<local, login, gateway, expired, epoch, payment, faults>>

Deny(t) ==
    /\ tab[t].page = "google"
    /\ Shows(t, "error")
    /\ UNCHANGED <<local, Services, payment, faults>>

-----------------------------------------------------------------------------
(* The callback page and the gateway.                                      *)

\* The page asks the gateway for the identity, once for each load.
CompleteZkLogin(t) ==
    /\ tab[t].page = "callback"
    /\ Shows(t, "exchanging")
    /\ UNCHANGED <<local, Services, payment, faults>>

\* Slip: an exchange is memorized when it has succeeded.
AskUnshared(l) ==
    IF gateway[l].memo = "token" THEN UNCHANGED <<gateway, google>>
    ELSE /\ gateway' = [gateway EXCEPT ![l].open = @ + 1]
         /\ google' = [google EXCEPT ![l].asked = @ + 1]

\* exchangeCodeForIdToken: the promise of an exchange is shared, whatever it
\* ends with.
Ask(l) ==
    IF gateway[l].memo # "none" THEN UNCHANGED <<gateway, google>>
    ELSE /\ gateway' = [gateway EXCEPT ![l] = [memo |-> "pending",
                                               open |-> @.open + 1]]
         /\ google' = [google EXCEPT ![l].asked = @ + 1]

\* handleCallback up to its await; consumeState refuses a state that is old.
Callback(t) ==
    /\ tab[t].page = "exchanging"
    /\ LET l == tab[t].login
       IN  IF l \in expired
             THEN Shows(t, "error") /\ UNCHANGED <<gateway, google>>
             ELSE Shows(t, "waiting") /\ Ask(l)
    /\ UNCHANGED <<local, login, expired, epoch, payment, faults>>

\* Google redeems a code once.  Its answer may be lost, before or after that.
Redeem(l) ==
    /\ gateway[l].open > 0
    /\ \/ /\ gateway' = [gateway EXCEPT
                ![l] = [memo |-> IF google[l].redeemed THEN "refused"
                                 ELSE "token",
                        open |-> @.open - 1]]
          /\ google' = [google EXCEPT ![l].redeemed = TRUE]
          /\ UNCHANGED faults
       \/ /\ Fault("lost")
          /\ gateway' = [gateway EXCEPT ![l] = [memo |-> "refused",
                                                open |-> @.open - 1]]
          /\ \E redeemed \in {google[l].redeemed, TRUE} :
                google' = [google EXCEPT ![l].redeemed = redeemed]
    /\ UNCHANGED <<pageVars, login, expired, epoch, payment>>

\* handleCallback after its await.
CallbackAnswers(t) ==
    /\ tab[t].page = "waiting"
    /\ \/ gateway[tab[t].login].memo = "token" /\ Shows(t, "proving")
       \/ gateway[tab[t].login].memo = "refused" /\ Shows(t, "error")
    /\ UNCHANGED <<local, Services, payment, faults>>

\* The browser gives up after 15 s; the gateway goes on.
CallbackTimesOut(t) ==
    /\ tab[t].page \in {"exchanging", "waiting"}
    /\ Shows(t, "error")
    /\ UNCHANGED <<local, Services, payment, faults>>

\* setZkLogin, and the page is left for the application.
SetZkLogin(t, session) ==
    /\ tab' = [tab EXCEPT ![t].session = session, ![t].page = "app",
                          ![t].login = None]
    /\ local' = session

\* The login of a proof that cannot be used does not matter.
ZkSession(l, usable) ==
    [mode |-> "zk", login |-> IF usable THEN l ELSE None]

\* Slip: the snapshot is cleared when the proof has been fetched.
SetZkProofClears(t, usable) ==
    LET session == ZkSession(tab[t].login, usable)
    IN  /\ tab' = [tab EXCEPT ![t] = [FreshTab EXCEPT !.session = session]]
        /\ local' = session

\* A proof, of the shape hasUsableProof asks for or not.
SetZkProof(t, usable) ==
    SetZkLogin(t, ZkSession(tab[t].login, usable))

\* The prover takes the bundle only if its key has the nonce of the token.
Prover(t) == tab[t].key = tab[t].login

RequestZkProof(t) ==
    /\ tab[t].page = "proving"
    /\ Prover(t)
    /\ \E usable \in BOOLEAN : SetZkProof(t, usable)
    /\ UNCHANGED <<Services, payment, faults>>

\* Slip: a refused proof is asked for again.
ProofRetries(t) ==
    /\ tab[t].page = "proving"
    /\ Shows(t, IF Prover(t) THEN "falling" ELSE "proving")
    /\ UNCHANGED <<local, Services, payment, faults>>

\* It refuses, or cannot be reached.
ProofFails(t) ==
    /\ tab[t].page = "proving"
    /\ Shows(t, "falling")
    /\ UNCHANGED <<local, Services, payment, faults>>

FallbackSession == [mode |-> "custodial"]

\* The session is custodial, marked as such or, when the gateway refuses, not;
\* when the gateway does not answer, there is none.
CreateFallbackSession(t) ==
    /\ tab[t].page = "falling"
    /\ \/ SetZkLogin(t, FallbackSession)
       \/ Shows(t, "error") /\ UNCHANGED local
    /\ UNCHANGED <<Services, payment, faults>>

\* The callback page is loaded again, with the code and the state in its URL.
Reload(t) ==
    /\ tab[t].page \in {"exchanging", "waiting", "proving", "falling", "error"}
    /\ google[tab[t].login].consent
    /\ Fault("user")
    /\ tab' = [tab EXCEPT ![t].page = "callback", ![t].session = local]
    /\ UNCHANGED <<local, Services, payment>>

\* The gateway dies with its requests, and starts again without its memory.
GatewayRestarts ==
    /\ Fault("restart")
    /\ gateway' = [l \in Logins |-> [memo |-> "none", open |-> 0]]
    /\ tab' = [t \in Tabs |-> IF tab[t].page = "waiting"
                                THEN [tab[t] EXCEPT !.page = "error"]
                                ELSE tab[t]]
    /\ UNCHANGED <<local, login, google, expired, epoch, payment>>

Expires(l) ==
    /\ l \in Begun \ expired
    /\ expired' = expired \union {l}
    /\ UNCHANGED <<pageVars, login, gateway, google, epoch, payment, faults>>

-----------------------------------------------------------------------------
(* Tabs and wallets.                                                       *)

\* A tab is closed and another one opened: sessionStorage is not shared.
NewTab(t) ==
    /\ Fault("user")
    /\ tab' = [tab EXCEPT ![t] = [FreshTab EXCEPT !.session = local]]
    /\ login' = [l \in Logins |-> IF login[l].tab = t
                                    THEN [login[l] EXCEPT !.tab = Gone]
                                    ELSE login[l]]
    /\ Unloads(t)
    /\ UNCHANGED <<local, gateway, google, expired, epoch>>

\* connectSuiWallet: the preferred account, if the wallet shows it to this site.
WalletAccount(preferred, shown) ==
    IF preferred \in shown THEN preferred ELSE CHOOSE a \in shown : TRUE

ConnectWallet(t) ==
    /\ tab[t].page = "app"
    /\ \E shown \in (SUBSET Accounts) \ {{}} :
          SetZkLogin(t, [mode |-> "wallet",
                         account |-> WalletAccount(Gone, shown)])
    /\ UNCHANGED <<Services, payment, faults>>

SignOut(t) ==
    /\ tab[t].page = "app"
    /\ SetZkLogin(t, NoSession)
    /\ UNCHANGED <<Services, payment, faults>>

EpochEnds ==
    /\ epoch < LastEpoch
    /\ epoch' = epoch + 1
    /\ UNCHANGED <<pageVars, login, gateway, google, expired, payment, faults>>

-----------------------------------------------------------------------------
(* A payment that the user signs.                                          *)

\* Who signs when the agent does not: the session decides.
Signer(session) ==
    CASE session.mode = "zk" /\ session.login # None -> "zk"
      [] session.mode = "wallet"               -> "wallet"
      [] OTHER                                 -> "server"

\* The session is read, and the trust service asked for the transaction.
Pay(t) ==
    /\ tab[t].page = "app" /\ payment.tab = Gone
    /\ Signer(tab[t].session) # "server"
    /\ payment' = [tab |-> t, session |-> tab[t].session]
    /\ UNCHANGED <<pageVars, Services, faults>>

\* zkSignAndSubmit: the key of the tab, the proof of the session.
Fits(t, session) ==
    tab[t].key = session.login /\ epoch <= login[session.login].last

\* walletSignAndSubmit: the transaction names the account of the session; by
\* now the wallet may show other ones, or none.
Holds(shown, account) == shown # {} /\ WalletAccount(account, shown) = account

Paying(t, mode) == payment.tab = t /\ Signer(payment.session) = mode

Signs(t) ==
    /\ \/ Paying(t, "zk") /\ Fits(t, payment.session)
       \/ /\ Paying(t, "wallet")
          /\ \E shown \in SUBSET Accounts : Holds(shown, payment.session.account)
    /\ payment' = NoPayment
    /\ UNCHANGED <<pageVars, Services, faults>>

\* The key is missing, or the chain refuses the signature.
SignatureRefused(t) ==
    /\ \/ Paying(t, "zk") /\ ~Fits(t, payment.session)
       \/ /\ Paying(t, "wallet")
          /\ \E shown \in SUBSET Accounts : ~Holds(shown, payment.session.account)
    /\ payment' = NoPayment
    /\ UNCHANGED <<pageVars, Services, faults>>

-----------------------------------------------------------------------------
Proceed(t) ==
    \/ Authorize(t) \/ AuthorizeFails(t)
    \/ CompleteZkLogin(t) \/ Callback(t) \/ CallbackAnswers(t)
    \/ CallbackTimesOut(t)
    \/ RequestZkProof(t) \/ ProofFails(t) \/ CreateFallbackSession(t)

User(t) ==
    \/ Begin(t) \/ GoBack(t) \/ Consent(t) \/ Deny(t)
    \/ Reload(t) \/ NewTab(t) \/ ConnectWallet(t) \/ SignOut(t) \/ Pay(t)
    \/ \E l \in Logins : Revisit(t, l)

Next ==
    \/ \E t \in Tabs :
          \/ Proceed(t) \/ User(t)
          \/ Signs(t) \/ SignatureRefused(t)
    \/ \E l \in Logins : Redeem(l) \/ Expires(l)
    \/ GatewayRestarts \/ EpochEnds

Spec == Init /\ [][Next]_vars

\* Every call of the page has a timeout (15 s to the gateway, 90 s to the
\* prover), so one of its outcomes comes.
FairSpec == Spec /\ \A t \in Tabs : WF_vars(Proceed(t))

-----------------------------------------------------------------------------
\* However often the callback page is loaded and whoever waits, the gateway
\* asks Google to redeem a code once in its life; and if no answer of Google's
\* and no memory of the gateway was lost, a redeemed code is a token that
\* every later load of the page is given.
CodeSpentOnce ==
    \A l \in Logins :
        /\ google[l].asked <= 1 + faults.restart
        /\ google[l].redeemed /\ faults.lost + faults.restart = 0 =>
              gateway[l].memo = "token"

\* Where a user signed in last, payments with that session's proof are refused
\* for lateness only: a reload, an error, another tab or a lost answer between
\* the sign-in and the signature does not part the key from the proof.
SignsWhereItSignedIn ==
    [][\A t \in Tabs :
          LET l == payment.session.login
          IN  /\ Paying(t, "zk") /\ SignatureRefused(t)
              /\ login[l].tab = t
              /\ \A m \in Logins : login[m].tab = t => m <= l
              => epoch > login[l].last]_vars

\* A sign-in that came back from Google ends in the application or with an
\* error, and one that is on its way to Google gets there or does not leave.
SignInEnds ==
    \A t \in Tabs :
        tab[t].page \notin {"app", "google", "error"} ~>
            tab[t].page \in {"app", "google", "error"}
=============================================================================
