---------------------------- MODULE SignInProofs -----------------------------
(***************************************************************************)
(* Theorems about SignIn, for any number of tabs, logins, faults and       *)
(* epochs: a code is redeemed once, and a tab keeps the key of its proof.  *)
(* That every sign-in ends is liveness and stays with TLC.                 *)
(***************************************************************************)
EXTENDS SignIn, FiniteSetTheorems, TLAPS

Pages == {"app", "leaving", "google", "callback", "exchanging", "waiting",
          "proving", "falling", "error"}

Sessions == {NoSession, FallbackSession}
            \cup [mode : {"zk"}, login : Logins \cup {None}]
            \cup [mode : {"wallet"}, account : Accounts]

Tab == [page : Pages, login : Logins \cup {None}, key : Logins \cup {None},
        session : Sessions]

Typed ==
    /\ tab \in [Tabs -> Tab]
    /\ \A t \in Tabs : tab[t].page # "app" => tab[t].login \in Logins
    /\ local \in Sessions
    /\ login \in [Logins -> [tab : Tabs \cup {"none", Gone}, last : Nat]]
    /\ gateway \in [Logins -> [memo : {"none", "pending", "token", "refused"},
                               open : Nat]]
    /\ google \in [Logins -> [consent : BOOLEAN, asked : Nat, redeemed : BOOLEAN]]
    /\ epoch \in Nat
    /\ faults \in [restart : Nat, lost : Nat, user : Nat]
    /\ payment \in {NoPayment} \cup [tab : Tabs, session : Sessions]

\* The gateway's memory stands between a code and its second exchange.
CodeInv ==
    \A l \in Logins :
        /\ google[l].asked
              <= faults.restart + (IF gateway[l].memo = "none" THEN 0 ELSE 1)
        /\ faults.lost + faults.restart = 0 =>
              /\ gateway[l].open = (IF gateway[l].memo = "pending" THEN 1 ELSE 0)
              /\ gateway[l].memo = "token" <=> google[l].redeemed
              /\ gateway[l].memo # "refused"

\* Logins are numbered as they are begun.
Numbered == \E n \in 0 .. MaxLogins : Begun = 1 .. n

\* A tab that began logins keeps the key of the last one.
KeyInv ==
    \A t \in Tabs, l \in Logins : login[l].tab = t =>
        /\ tab[t].key \in Logins /\ login[tab[t].key].tab = t
        /\ l <= tab[t].key

IInv == Typed /\ CodeInv /\ Numbered /\ KeyInv

-----------------------------------------------------------------------------
(* What steps leave alone *)

LEMMA Sorts ==
    /\ NoSession \in Sessions /\ FallbackSession \in Sessions
    /\ \A l \in Logins, usable \in BOOLEAN : ZkSession(l, usable) \in Sessions
    /\ FreshTab \in Tab /\ FreshTab.page = "app"
    /\ Logins \subseteq Nat /\ None \notin Logins /\ MaxLogins \in Nat
    /\ Gone \notin Tabs /\ "none" \notin Tabs /\ Gone # "none"
    /\ \A s \in Sessions : s.mode = "zk" => s.login \in Logins \cup {None}
<1>1. NoSession \in Sessions /\ FallbackSession \in Sessions
  BY DEF Sessions
<1>2. \A l \in Logins, usable \in BOOLEAN : ZkSession(l, usable) \in Sessions
  BY DEF Sessions, ZkSession
<1>3. FreshTab \in Tab /\ FreshTab.page = "app"
  BY <1>1 DEF FreshTab, Tab, Pages
<1>4. Logins \subseteq Nat /\ None \notin Logins /\ MaxLogins \in Nat
  BY SignInAssumption DEF Logins, None
<1>5. Gone \notin Tabs /\ "none" \notin Tabs /\ Gone # "none"
  BY SignInAssumption DEF Gone
<1>6. \A s \in Sessions : s.mode = "zk" => s.login \in Logins \cup {None}
  BY DEF Sessions, NoSession, FallbackSession
<1>7. QED
  BY <1>1, <1>2, <1>3, <1>4, <1>5, <1>6

\* A page moves on; its tab keeps its key.
Moves ==
    /\ tab' \in [Tabs -> Tab]
    /\ \A t \in Tabs : tab'[t].page # "app" => tab'[t].login \in Logins
    /\ \A t \in Tabs : tab'[t].key = tab[t].key
    /\ local' \in Sessions
    /\ payment' \in {NoPayment} \cup [tab : Tabs, session : Sessions]

\* A fault is counted.
Counts ==
    /\ faults' \in [restart : Nat, lost : Nat, user : Nat]
    /\ faults'.restart = faults.restart
    /\ faults'.lost + faults'.restart = 0 => faults.lost + faults.restart = 0

LEMMA FaultCounts ==
    ASSUME Typed, UNCHANGED faults \/ Fault("user") \/ Fault("lost")
    PROVE  Counts
<1>1. faults \in [restart : Nat, lost : Nat, user : Nat]
  BY DEF Typed
<1>2. CASE UNCHANGED faults
  BY <1>1, <1>2 DEF Counts
<1>3. CASE Fault("user")
  BY <1>1, <1>3 DEF Counts, Fault
<1>4. CASE Fault("lost")
  BY <1>1, <1>4 DEF Counts, Fault
<1>5. QED
  BY <1>2, <1>3, <1>4

\* Keys and logins stay when no login is begun and no tab is closed.
LEMMA KeysStay ==
    ASSUME Numbered, KeyInv, login' = login, \A t \in Tabs : tab'[t].key = tab[t].key
    PROVE  Numbered' /\ KeyInv'
<1>1. Begun' = Begun
  BY DEF Begun
<1>2. QED
  BY <1>1 DEF Numbered, KeyInv

\* Steps of a page that leave the gateway alone.
LEMMA PageStep ==
    ASSUME IInv, Moves, Counts, UNCHANGED <<login, gateway, expired>>,
           google' \in [Logins -> [consent : BOOLEAN, asked : Nat, redeemed : BOOLEAN]],
           \A l \in Logins : /\ google'[l].asked = google[l].asked
                             /\ google'[l].redeemed = google[l].redeemed,
           epoch' \in Nat
    PROVE  IInv'
<1>1. Typed'
  BY DEF IInv, Typed, Moves, Counts
<1>2. CodeInv'
  <2> SUFFICES ASSUME NEW l \in Logins
               PROVE  /\ google'[l].asked <= faults'.restart
                            + (IF gateway'[l].memo = "none" THEN 0 ELSE 1)
                      /\ faults'.lost + faults'.restart = 0 =>
                           /\ gateway'[l].open
                                = (IF gateway'[l].memo = "pending" THEN 1 ELSE 0)
                           /\ gateway'[l].memo = "token" <=> google'[l].redeemed
                           /\ gateway'[l].memo # "refused"
    BY DEF CodeInv
  <2>1. gateway'[l] = gateway[l] /\ faults'.restart = faults.restart
    BY DEF Counts
  <2>2. google'[l].asked = google[l].asked /\ google'[l].redeemed = google[l].redeemed
    OBVIOUS
  <2>3. faults'.lost + faults'.restart = 0 => faults.lost + faults.restart = 0
    BY DEF Counts
  <2>4. QED
    BY <2>1, <2>2, <2>3 DEF IInv, CodeInv
<1>3. Numbered' /\ KeyInv'
  BY KeysStay DEF IInv, Moves
<1>4. QED
  BY <1>1, <1>2, <1>3 DEF IInv

-----------------------------------------------------------------------------
(* Pages *)

\* A tab gets a page, a login and a session.
LEMMA OneTabMoves ==
    ASSUME Typed, NEW t \in Tabs, NEW page \in Pages, NEW l \in Logins \cup {None},
           NEW session \in Sessions, page # "app" => l \in Logins,
           tab' \in [Tabs -> Tab],
           tab'[t].page = page, tab'[t].login = l, tab'[t].key = tab[t].key,
           \A s \in Tabs \ {t} : tab'[s] = tab[s],
           local' \in Sessions,
           payment' \in {NoPayment} \cup [tab : Tabs, session : Sessions]
    PROVE  Moves
BY DEF Typed, Moves

\* Showing another page changes nothing else of the tab.
LEMMA ShowsTab ==
    ASSUME Typed, NEW t \in Tabs, NEW page \in Pages, Shows(t, page),
           page # "app" => tab[t].login \in Logins, UNCHANGED <<local, payment>>
    PROVE  Moves
<1>1. /\ tab' \in [Tabs -> Tab] /\ tab'[t].page = page /\ tab'[t].login = tab[t].login
      /\ tab'[t].key = tab[t].key /\ \A s \in Tabs \ {t} : tab'[s] = tab[s]
  <2>1. tab \in [Tabs -> Tab]
    BY DEF Typed
  <2>2. QED
    BY <2>1 DEF Shows, Tab
<1>2. tab[t].login \in Logins \cup {None} /\ tab[t].session \in Sessions
  BY DEF Typed, Tab
<1>3. UNCHANGED <<local, payment>> /\ local' \in Sessions
      /\ payment' \in {NoPayment} \cup [tab : Tabs, session : Sessions]
  BY DEF Typed
<1>4. QED
  BY <1>1, <1>2, <1>3, OneTabMoves

\* Leaving a page ends the payment that was under way there.
LEMMA UnloadsTyped ==
    ASSUME Typed, NEW t \in Tabs, Unloads(t)
    PROVE  payment' \in {NoPayment} \cup [tab : Tabs, session : Sessions]
BY DEF Typed, Unloads

\* The page is left for the application with a session.
LEMMA SetZkLoginMoves ==
    ASSUME Typed, NEW t \in Tabs, NEW session \in Sessions, SetZkLogin(t, session),
           UNCHANGED payment
    PROVE  Moves
<1>1. /\ tab' \in [Tabs -> Tab] /\ tab'[t].page = "app" /\ tab'[t].login = None
      /\ tab'[t].key = tab[t].key /\ \A s \in Tabs \ {t} : tab'[s] = tab[s]
  <2>1. tab \in [Tabs -> Tab] /\ "app" \in Pages /\ None \in Logins \cup {None}
    BY DEF Typed, Pages
  <2>2. QED
    BY <2>1 DEF SetZkLogin, Tab
<1>2. local' \in Sessions /\ "app" \in Pages
      /\ payment' \in {NoPayment} \cup [tab : Tabs, session : Sessions]
  BY DEF Typed, SetZkLogin, Pages
<1>3. QED
  BY <1>1, <1>2, OneTabMoves

LEMMA Google ==
    ASSUME Typed, UNCHANGED google
    PROVE  /\ google' \in [Logins -> [consent : BOOLEAN, asked : Nat, redeemed : BOOLEAN]]
           /\ \A l \in Logins : /\ google'[l].asked = google[l].asked
                                /\ google'[l].redeemed = google[l].redeemed
BY DEF Typed

\* Steps that show another page, and nothing else.
LEMMA ShowsStep ==
    ASSUME IInv, NEW t \in Tabs, NEW page \in Pages, Shows(t, page),
           tab[t].page # "app", UNCHANGED <<local, payment>>,
           UNCHANGED Services, UNCHANGED faults
    PROVE  IInv'
<1>1. Typed /\ tab[t].login \in Logins
  BY DEF IInv, Typed
<1>2. Moves
  BY <1>1, ShowsTab
<1>3. Counts
  BY <1>1, FaultCounts
<1>4. UNCHANGED <<login, gateway, google, expired, epoch>> /\ epoch' \in Nat
  BY <1>1 DEF Services, Typed
<1>5. QED
  BY <1>1, <1>2, <1>3, <1>4, Google, PageStep

LEMMA SetStep ==
    ASSUME IInv, NEW t \in Tabs, NEW session \in Sessions, SetZkLogin(t, session),
           UNCHANGED payment, UNCHANGED Services, UNCHANGED faults
    PROVE  IInv'
<1>1. Typed
  BY DEF IInv
<1>2. Moves
  BY <1>1, SetZkLoginMoves
<1>3. Counts
  BY <1>1, FaultCounts
<1>4. UNCHANGED <<login, gateway, google, expired, epoch>> /\ epoch' \in Nat
  BY <1>1 DEF Services, Typed
<1>5. QED
  BY <1>1, <1>2, <1>3, <1>4, Google, PageStep

\* The steps of a page after the gateway's and the prover's answers.
LEMMA ProceedKeeps ==
    ASSUME IInv, NEW t \in Tabs,
           \/ CompleteZkLogin(t) \/ CallbackAnswers(t) \/ CallbackTimesOut(t)
           \/ RequestZkProof(t) \/ ProofFails(t) \/ CreateFallbackSession(t)
           \/ Deny(t) \/ ConnectWallet(t) \/ SignOut(t)
    PROVE  IInv'
<1>1. Typed
  BY DEF IInv
<1>2. {"exchanging", "proving", "error", "falling"} \subseteq Pages
  BY DEF Pages
<1>3. CASE CompleteZkLogin(t)
  BY <1>2, <1>3, ShowsStep DEF CompleteZkLogin
<1>4. CASE CallbackAnswers(t)
  BY <1>2, <1>4, ShowsStep DEF CallbackAnswers
<1>5. CASE CallbackTimesOut(t)
  BY <1>2, <1>5, ShowsStep DEF CallbackTimesOut
<1>6. CASE RequestZkProof(t)
  <2>1. PICK usable \in BOOLEAN : SetZkLogin(t, ZkSession(tab[t].login, usable))
    BY <1>6 DEF RequestZkProof, SetZkProof
  <2>2. tab[t].login \in Logins
    BY <1>1, <1>6 DEF RequestZkProof, Typed
  <2>3. QED
    BY <1>6, <2>1, <2>2, Sorts, SetStep DEF RequestZkProof
<1>7. CASE ProofFails(t)
  BY <1>2, <1>7, ShowsStep DEF ProofFails
<1>8. CASE CreateFallbackSession(t)
  BY <1>2, <1>8, Sorts, ShowsStep, SetStep DEF CreateFallbackSession
<1>9. CASE Deny(t)
  BY <1>2, <1>9, ShowsStep DEF Deny
<1>10. CASE ConnectWallet(t)
  <2>1. PICK shown \in (SUBSET Accounts) \ {{}} :
          SetZkLogin(t, [mode |-> "wallet", account |-> WalletAccount(Gone, shown)])
    BY <1>10 DEF ConnectWallet
  <2>2. WalletAccount(Gone, shown) \in Accounts
    BY <2>1 DEF WalletAccount
  <2>3. [mode |-> "wallet", account |-> WalletAccount(Gone, shown)] \in Sessions
    BY <2>2 DEF Sessions
  <2>4. QED
    BY <1>10, <2>1, <2>3, SetStep DEF ConnectWallet
<1>11. CASE SignOut(t)
  BY <1>11, Sorts, SetStep DEF SignOut
<1>12. QED
  BY <1>3, <1>4, <1>5, <1>6, <1>7, <1>8, <1>9, <1>10, <1>11

\* Leaving for Google and coming back.
LEMMA TravelKeeps ==
    ASSUME IInv, NEW t \in Tabs,
           \/ Authorize(t) \/ AuthorizeFails(t) \/ GoBack(t) \/ Consent(t) \/ Reload(t)
           \/ \E l \in Logins : Revisit(t, l)
    PROVE  IInv'
<1>1. Typed
  BY DEF IInv
<1>2. {"app", "google", "callback"} \subseteq Pages /\ None \in Logins \cup {None}
  BY DEF Pages
<1>3. tab \in [Tabs -> Tab] /\ local \in Sessions
  BY <1>1 DEF Typed
<1>4. tab[t].login \in Logins \cup {None} /\ tab[t].session \in Sessions
  BY <1>3 DEF Tab
<1>5. tab[t].page # "app" => tab[t].login \in Logins
  BY <1>1 DEF Typed
<1>6. epoch \in Nat /\ payment \in {NoPayment} \cup [tab : Tabs, session : Sessions]
  BY <1>1 DEF Typed
<1>7. CASE Authorize(t)
  <2>1. /\ tab' \in [Tabs -> Tab] /\ tab'[t].page = "google"
        /\ tab'[t].login = tab[t].login
        /\ tab'[t].key = tab[t].key /\ \A s \in Tabs \ {t} : tab'[s] = tab[s]
    BY <1>2, <1>3, <1>7 DEF Authorize, Shows, Tab
  <2>2. tab[t].login \in Logins /\ UNCHANGED <<local, Services, faults>>
    BY <1>5, <1>7 DEF Authorize
  <2>3. payment' \in {NoPayment} \cup [tab : Tabs, session : Sessions]
    BY <1>1, <1>7, UnloadsTyped DEF Authorize
  <2>4. Moves
    BY <1>1, <1>2, <1>3, <1>4, <1>6, <2>1, <2>2, <2>3, OneTabMoves
  <2>5. Counts
    BY <1>1, <2>2, FaultCounts
  <2>6. QED
    BY <1>1, <1>6, <2>2, <2>4, <2>5, Google, PageStep DEF Services
<1>8. CASE AuthorizeFails(t)
  <2>1. /\ tab' \in [Tabs -> Tab] /\ tab'[t].page = "app" /\ tab'[t].login = None
        /\ tab'[t].key = tab[t].key /\ \A s \in Tabs \ {t} : tab'[s] = tab[s]
    BY <1>2, <1>3, <1>8 DEF AuthorizeFails, Tab
  <2>2. UNCHANGED <<local, Services, payment, faults>>
    BY <1>8 DEF AuthorizeFails
  <2>3. Moves
    BY <1>1, <1>2, <1>3, <1>4, <1>6, <2>1, <2>2, OneTabMoves
  <2>4. Counts
    BY <1>1, <2>2, FaultCounts
  <2>5. QED
    BY <1>1, <1>6, <2>2, <2>3, <2>4, Google, PageStep DEF Services
<1>9. CASE GoBack(t)
  <2>1. /\ tab' \in [Tabs -> Tab] /\ tab'[t].page = "app" /\ tab'[t].login = None
        /\ tab'[t].key = tab[t].key /\ \A s \in Tabs \ {t} : tab'[s] = tab[s]
    BY <1>2, <1>3, <1>9 DEF GoBack, Tab
  <2>2. UNCHANGED <<local, Services, payment, faults>>
    BY <1>9 DEF GoBack
  <2>3. Moves
    BY <1>1, <1>2, <1>3, <1>4, <1>6, <2>1, <2>2, OneTabMoves
  <2>4. Counts
    BY <1>1, <2>2, FaultCounts
  <2>5. QED
    BY <1>1, <1>6, <2>2, <2>3, <2>4, Google, PageStep DEF Services
<1>10. CASE Consent(t)
  <2>1. /\ tab' \in [Tabs -> Tab] /\ tab'[t].page = "callback"
        /\ tab'[t].login = tab[t].login
        /\ tab'[t].key = tab[t].key /\ \A s \in Tabs \ {t} : tab'[s] = tab[s]
    BY <1>2, <1>3, <1>10 DEF Consent, Tab
  <2>2. UNCHANGED <<local, login, gateway, expired, epoch, payment, faults>>
        /\ tab[t].login \in Logins
        /\ google' = [google EXCEPT ![tab[t].login].consent = TRUE]
    BY <1>5, <1>10 DEF Consent
  <2>3. Moves
    BY <1>1, <1>2, <1>3, <1>4, <1>6, <2>1, <2>2, OneTabMoves
  <2>4. Counts
    BY <1>1, <2>2, FaultCounts
  <2>5. /\ google' \in [Logins -> [consent : BOOLEAN, asked : Nat, redeemed : BOOLEAN]]
        /\ \A l \in Logins : /\ google'[l].asked = google[l].asked
                             /\ google'[l].redeemed = google[l].redeemed
    BY <1>1, <2>2 DEF Typed
  <2>6. QED
    BY <1>6, <2>2, <2>3, <2>4, <2>5, PageStep
<1>11. CASE Reload(t)
  <2>1. /\ tab' \in [Tabs -> Tab] /\ tab'[t].page = "callback"
        /\ tab'[t].login = tab[t].login
        /\ tab'[t].key = tab[t].key /\ \A s \in Tabs \ {t} : tab'[s] = tab[s]
    BY <1>2, <1>3, <1>11 DEF Reload, Tab
  <2>2. UNCHANGED <<local, Services, payment>> /\ tab[t].login \in Logins /\ Fault("user")
    BY <1>5, <1>11 DEF Reload
  <2>3. Moves
    BY <1>1, <1>2, <1>3, <1>4, <1>6, <2>1, <2>2, OneTabMoves
  <2>4. Counts
    BY <1>1, <2>2, FaultCounts
  <2>5. QED
    BY <1>1, <1>6, <2>2, <2>3, <2>4, Google, PageStep DEF Services
<1>12. ASSUME NEW l \in Logins, Revisit(t, l) PROVE IInv'
  <2>1. /\ tab' \in [Tabs -> Tab] /\ tab'[t].page = "google" /\ tab'[t].login = l
        /\ tab'[t].key = tab[t].key /\ \A s \in Tabs \ {t} : tab'[s] = tab[s]
    <3>1. tab' = [tab EXCEPT ![t].page = "google", ![t].login = l]
          /\ l \in Logins \cup {None}
      BY <1>12 DEF Revisit
    <3>2. QED
      BY <1>2, <1>3, <3>1 DEF Tab
  <2>2. UNCHANGED <<local, Services>> /\ Fault("user")
    BY <1>12 DEF Revisit
  <2>3. payment' \in {NoPayment} \cup [tab : Tabs, session : Sessions]
    BY <1>1, <1>12, UnloadsTyped DEF Revisit
  <2>4. Moves
    BY <1>1, <1>2, <1>3, <1>4, <1>6, <2>1, <2>2, <2>3, OneTabMoves
  <2>5. Counts
    BY <1>1, <2>2, FaultCounts
  <2>6. QED
    BY <1>1, <1>6, <2>2, <2>4, <2>5, Google, PageStep DEF Services
<1>13. QED
  BY <1>7, <1>8, <1>9, <1>10, <1>11, <1>12

-----------------------------------------------------------------------------
(* Logins and tabs *)

\* A new login gets the next number, and its key goes to the tab.
LEMMA BeginKeeps ==
    ASSUME IInv, NEW t \in Tabs, Begin(t)
    PROVE  IInv'
<1> DEFINE l == Cardinality(Begun) + 1
<1>1. Typed
  BY DEF IInv
<1>2. /\ Begun # Logins
      /\ tab' = [tab EXCEPT ![t].page = "leaving", ![t].login = l, ![t].key = l]
      /\ UNCHANGED <<local, gateway, google, expired, epoch, payment, faults>>
  BY DEF Begin
<1>3. PICK last \in LastEpochs : login' = [login EXCEPT ![l] = [tab |-> t, last |-> last]]
  BY DEF Begin
<1>4. PICK n \in 0 .. MaxLogins : Begun = 1 .. n
  BY DEF IInv, Numbered
<1>5. Cardinality(Begun) = n
  BY <1>4, Sorts, FS_Interval
<1>6. /\ n \in Nat /\ l = n + 1 /\ l \in Logins /\ l \in Logins \cup {None}
      /\ n + 1 \in 0 .. MaxLogins
  BY <1>2, <1>4, <1>5, Sorts DEF Logins
<1> HIDE DEF l
<1>7. last \in Nat
  BY <1>1, <1>3, SignInAssumption DEF Typed, LastEpochs
<1>8. tab \in [Tabs -> Tab] /\ "leaving" \in Pages
  BY <1>1 DEF Typed, Pages
<1>9. /\ tab' \in [Tabs -> Tab]
      /\ tab'[t].page = "leaving" /\ tab'[t].login = l /\ tab'[t].key = l
      /\ \A s \in Tabs \ {t} : tab'[s] = tab[s]
  BY <1>2, <1>6, <1>8 DEF Tab
<1>10. login \in [Logins -> [tab : Tabs \cup {"none", Gone}, last : Nat]]
  BY <1>1 DEF Typed
<1>11. /\ login' \in [Logins -> [tab : Tabs \cup {"none", Gone}, last : Nat]]
       /\ login'[l].tab = t
       /\ \A m \in Logins : m # l => login'[m] = login[m]
  BY <1>3, <1>6, <1>7, <1>10
<1>12. Typed'
  <2>1. \A s \in Tabs : tab'[s].page # "app" => tab'[s].login \in Logins
    BY <1>1, <1>6, <1>9 DEF Typed
  <2>2. QED
    BY <1>1, <1>2, <1>9, <1>11, <2>1 DEF Typed
<1>13. CodeInv'
  BY <1>2 DEF IInv, CodeInv
<1>14. Numbered'
  <2>1. Begun' = Begun \cup {l}
    BY <1>6, <1>11, Sorts DEF Begun
  <2>2. Begun' = 1 .. n + 1
    BY <1>4, <1>6, <2>1
  <2>3. QED
    BY <1>6, <2>2 DEF Numbered
<1>15. KeyInv'
  <2> SUFFICES ASSUME NEW s \in Tabs, NEW m \in Logins, login'[m].tab = s
               PROVE  /\ tab'[s].key \in Logins /\ login'[tab'[s].key].tab = s
                      /\ m <= tab'[s].key
    BY DEF KeyInv
  <2>1. \A k \in Logins : login[k].tab \in Tabs => k <= n /\ k # l
    BY <1>4, <1>6, Sorts DEF Begun
  <2>2. CASE s = t
    <3>1. m <= l
      BY <1>6, <1>11, <2>1, Sorts
    <3>2. QED
      BY <1>6, <1>9, <1>11, <2>2, <3>1
  <2>3. CASE s # t
    <3>1. m # l /\ login[m].tab = s
      BY <1>11, <2>3
    <3>2. /\ tab[s].key \in Logins /\ login[tab[s].key].tab = s
          /\ m <= tab[s].key
      BY <3>1 DEF IInv, KeyInv
    <3>3. tab[s].key # l
      BY <2>1, <3>2
    <3>4. QED
      BY <1>9, <1>11, <2>3, <3>2, <3>3
  <2>4. QED
    BY <2>2, <2>3
<1>16. QED
  BY <1>12, <1>13, <1>14, <1>15 DEF IInv

\* With its tab go a key and the proofs it would have fitted.
LEMMA NewTabKeeps ==
    ASSUME IInv, NEW t \in Tabs, NewTab(t)
    PROVE  IInv'
<1>1. Typed
  BY DEF IInv
<1>2. /\ Fault("user")
      /\ tab' = [tab EXCEPT ![t] = [FreshTab EXCEPT !.session = local]]
      /\ login' = [l \in Logins |-> IF login[l].tab = t
                                      THEN [login[l] EXCEPT !.tab = Gone]
                                      ELSE login[l]]
      /\ UNCHANGED <<local, gateway, google, expired, epoch>>
  BY DEF NewTab
<1>3. Counts
  BY <1>1, <1>2, FaultCounts
<1>4. /\ [FreshTab EXCEPT !.session = local] \in Tab
      /\ [FreshTab EXCEPT !.session = local].page = "app"
  <2>1. local \in Sessions
    BY <1>1 DEF Typed
  <2>2. QED
    BY <2>1, Sorts DEF Tab
<1>5. tab \in [Tabs -> Tab]
  BY <1>1 DEF Typed
<1>6. /\ tab' \in [Tabs -> Tab] /\ tab'[t].page = "app"
      /\ \A s \in Tabs \ {t} : tab'[s] = tab[s]
  BY <1>2, <1>4, <1>5
<1>7. login \in [Logins -> [tab : Tabs \cup {"none", Gone}, last : Nat]]
  BY <1>1 DEF Typed
<1>8. /\ login' \in [Logins -> [tab : Tabs \cup {"none", Gone}, last : Nat]]
      /\ \A l \in Logins : login[l].tab = t => login'[l].tab = Gone
      /\ \A l \in Logins : login[l].tab # t => login'[l] = login[l]
  BY <1>2, <1>7
<1>9. payment' \in {NoPayment} \cup [tab : Tabs, session : Sessions]
  BY <1>1, UnloadsTyped DEF NewTab
<1>10. Typed'
  <2>1. \A s \in Tabs : tab'[s].page # "app" => tab'[s].login \in Logins
    BY <1>1, <1>6 DEF Typed
  <2>2. faults' \in [restart : Nat, lost : Nat, user : Nat]
    BY <1>3 DEF Counts
  <2>3. QED
    BY <1>1, <1>2, <1>6, <1>8, <1>9, <2>1, <2>2 DEF Typed
<1>11. CodeInv'
  BY <1>2, <1>3 DEF IInv, CodeInv, Counts
<1>12. Numbered'
  <2>1. Begun' = Begun
    BY <1>8, Sorts DEF Begun
  <2>2. QED
    BY <2>1 DEF IInv, Numbered
<1>13. KeyInv'
  <2> SUFFICES ASSUME NEW s \in Tabs, NEW m \in Logins, login'[m].tab = s
               PROVE  /\ tab'[s].key \in Logins /\ login'[tab'[s].key].tab = s
                      /\ m <= tab'[s].key
    BY DEF KeyInv
  <2>1. login[m].tab # t /\ login[m].tab = s /\ s # t
    BY <1>8, Sorts
  <2>2. /\ tab[s].key \in Logins /\ login[tab[s].key].tab = s
        /\ m <= tab[s].key
    BY <2>1 DEF IInv, KeyInv
  <2>3. QED
    BY <1>6, <1>8, <2>1, <2>2
<1>14. QED
  BY <1>10, <1>11, <1>12, <1>13 DEF IInv

-----------------------------------------------------------------------------
(* The gateway *)

\* Steps that change what the gateway and Google know of logins.
LEMMA GatewayStep ==
    ASSUME IInv, Moves, UNCHANGED <<login, epoch>>,
           faults' \in [restart : Nat, lost : Nat, user : Nat],
           gateway' \in [Logins -> [memo : {"none", "pending", "token", "refused"},
                                   open : Nat]],
           google' \in [Logins -> [consent : BOOLEAN, asked : Nat, redeemed : BOOLEAN]],
           CodeInv'
    PROVE  IInv'
<1>1. Typed'
  BY DEF IInv, Typed, Moves
<1>2. QED
  BY <1>1, KeysStay DEF IInv, Moves

LEMMA CallbackKeeps ==
    ASSUME IInv, NEW t \in Tabs, Callback(t)
    PROVE  IInv'
<1> DEFINE l == tab[t].login
<1>1. Typed /\ l \in Logins
  BY DEF IInv, Callback, Typed
<1>2. UNCHANGED <<local, login, expired, epoch, payment, faults>>
  BY DEF Callback
<1>3. \/ Shows(t, "error") /\ UNCHANGED <<gateway, google>>
      \/ Shows(t, "waiting") /\ Ask(l)
  BY DEF Callback
<1>4. Moves
  <2>1. "error" \in Pages /\ "waiting" \in Pages
    BY DEF Pages
  <2>2. QED
    BY <1>1, <1>2, <1>3, <2>1, ShowsTab
<1>5. /\ faults' \in [restart : Nat, lost : Nat, user : Nat]
      /\ gateway \in [Logins -> [memo : {"none", "pending", "token", "refused"},
                                  open : Nat]]
      /\ google \in [Logins -> [consent : BOOLEAN, asked : Nat, redeemed : BOOLEAN]]
      /\ faults \in [restart : Nat, lost : Nat, user : Nat]
  BY <1>1, <1>2 DEF Typed
<1> HIDE DEF l
<1>6. CASE UNCHANGED <<gateway, google>>
  <2>1. CodeInv'
    BY <1>2, <1>6 DEF IInv, CodeInv
  <2>2. QED
    BY <1>2, <1>4, <1>5, <1>6, <2>1, GatewayStep
<1>7. CASE ~UNCHANGED <<gateway, google>>
  <2>1. /\ gateway[l].memo = "none"
        /\ gateway' = [gateway EXCEPT ![l] = [memo |-> "pending", open |-> @.open + 1]]
        /\ google' = [google EXCEPT ![l].asked = @ + 1]
    BY <1>3, <1>7 DEF Ask
  <2>2. /\ gateway' \in [Logins -> [memo : {"none", "pending", "token", "refused"},
                                    open : Nat]]
        /\ gateway'[l].memo = "pending" /\ gateway'[l].open = gateway[l].open + 1
        /\ \A m \in Logins : m # l => gateway'[m] = gateway[m]
    BY <1>1, <1>5, <2>1
  <2>3. /\ google' \in [Logins -> [consent : BOOLEAN, asked : Nat, redeemed : BOOLEAN]]
        /\ google'[l].asked = google[l].asked + 1
        /\ google'[l].redeemed = google[l].redeemed
        /\ \A m \in Logins : m # l => google'[m] = google[m]
    BY <1>1, <1>5, <2>1
  <2>4. CodeInv'
    <3>1. CodeInv
      BY DEF IInv
    <3>2. google[l].asked \in Nat /\ faults.restart \in Nat /\ gateway[l].open \in Nat
      BY <1>1, <1>5
    <3>3. /\ google'[l].asked <= faults.restart + 1
          /\ faults.lost + faults.restart = 0 =>
                gateway'[l].open = 1 /\ ~google[l].redeemed
      BY <1>1, <2>1, <2>2, <2>3, <3>1, <3>2 DEF CodeInv
    <3>4. QED
      BY <1>2, <2>2, <2>3, <3>1, <3>3 DEF CodeInv
  <2>5. QED
    BY <1>2, <1>4, <1>5, <2>2, <2>3, <2>4, GatewayStep
<1>8. QED
  BY <1>6, <1>7

LEMMA RedeemKeeps ==
    ASSUME IInv, NEW l \in Logins, Redeem(l)
    PROVE  IInv'
<1>1. Typed /\ CodeInv
  BY DEF IInv
<1>2. /\ gateway[l].open > 0
      /\ UNCHANGED <<tab, local, login, expired, epoch, payment>>
  BY DEF Redeem, pageVars
<1>3. /\ faults \in [restart : Nat, lost : Nat, user : Nat]
      /\ gateway \in [Logins -> [memo : {"none", "pending", "token", "refused"},
                                  open : Nat]]
      /\ google \in [Logins -> [consent : BOOLEAN, asked : Nat, redeemed : BOOLEAN]]
  BY <1>1 DEF Typed
<1>4. Moves
  BY <1>1, <1>2 DEF Typed, Moves
<1>5. PICK memo \in {"token", "refused"}, redeemed \in BOOLEAN :
        /\ gateway' = [gateway EXCEPT ![l] = [memo |-> memo, open |-> @.open - 1]]
        /\ google' = [google EXCEPT ![l].redeemed = redeemed]
        /\ \/ /\ faults' = faults /\ redeemed
              /\ memo = IF google[l].redeemed THEN "refused" ELSE "token"
           \/ Fault("lost")
  <2>1. google[l].redeemed \in BOOLEAN
    BY <1>3
  <2>2. QED
    BY <2>1 DEF Redeem
<1>6. /\ gateway[l].open \in Nat /\ gateway[l].open - 1 \in Nat
      /\ google[l].asked \in Nat
  BY <1>2, <1>3
<1>7. /\ gateway' \in [Logins -> [memo : {"none", "pending", "token", "refused"},
                                  open : Nat]]
      /\ gateway'[l].memo = memo /\ gateway'[l].open = gateway[l].open - 1
      /\ \A m \in Logins : m # l => gateway'[m] = gateway[m]
  BY <1>3, <1>5, <1>6
<1>8. /\ google' \in [Logins -> [consent : BOOLEAN, asked : Nat, redeemed : BOOLEAN]]
      /\ google'[l].asked = google[l].asked
      /\ google'[l].redeemed = redeemed
      /\ \A m \in Logins : m # l => google'[m] = google[m]
  BY <1>3, <1>5
<1>9. /\ faults' \in [restart : Nat, lost : Nat, user : Nat]
      /\ faults'.restart = faults.restart
      /\ faults'.lost + faults'.restart = 0 =>
            faults' = faults /\ redeemed /\ faults.lost + faults.restart = 0
            /\ memo = IF google[l].redeemed THEN "refused" ELSE "token"
  <2>1. CASE Fault("lost")
    BY <1>3, <2>1 DEF Fault
  <2>2. CASE /\ faults' = faults /\ redeemed
             /\ memo = IF google[l].redeemed THEN "refused" ELSE "token"
    BY <1>3, <2>2
  <2>3. QED
    BY <1>5, <2>1, <2>2
<1>10. CodeInv'
  <2>1. google'[l].asked <= faults'.restart + 1
    BY <1>1, <1>3, <1>6, <1>8, <1>9 DEF CodeInv
  <2>2. faults'.lost + faults'.restart = 0 =>
           /\ gateway'[l].open = 0 /\ gateway'[l].memo = "token" /\ google'[l].redeemed
    <3>1. faults.lost + faults.restart = 0 =>
             gateway[l].open = 1 /\ gateway[l].memo = "pending" /\ ~google[l].redeemed
      BY <1>1, <1>2, <1>3 DEF CodeInv
    <3>2. QED
      BY <1>6, <1>7, <1>8, <1>9, <3>1
  <2>3. QED
    BY <1>1, <1>5, <1>7, <1>8, <1>9, <2>1, <2>2 DEF CodeInv
<1>11. QED
  BY <1>2, <1>4, <1>7, <1>8, <1>9, <1>10, GatewayStep

LEMMA GatewayRestartsKeeps ==
    ASSUME IInv, GatewayRestarts
    PROVE  IInv'
<1>1. Typed /\ CodeInv
  BY DEF IInv
<1>2. /\ UNCHANGED <<local, login, google, expired, epoch, payment>>
      /\ gateway' = [l \in Logins |-> [memo |-> "none", open |-> 0]]
      /\ tab' = [t \in Tabs |-> IF tab[t].page = "waiting"
                                  THEN [tab[t] EXCEPT !.page = "error"]
                                  ELSE tab[t]]
      /\ Fault("restart")
  BY DEF GatewayRestarts
<1>3. /\ faults \in [restart : Nat, lost : Nat, user : Nat]
      /\ google \in [Logins -> [consent : BOOLEAN, asked : Nat, redeemed : BOOLEAN]]
      /\ tab \in [Tabs -> Tab]
  BY <1>1 DEF Typed
<1>4. /\ faults' \in [restart : Nat, lost : Nat, user : Nat]
      /\ faults'.restart = faults.restart + 1
      /\ faults'.lost \in Nat
  BY <1>2, <1>3 DEF Fault
<1>5. Moves
  <2>1. tab' \in [Tabs -> Tab] /\ \A t \in Tabs : /\ tab'[t].key = tab[t].key
                                                  /\ tab'[t].login = tab[t].login
    <3>1. "error" \in Pages
      BY DEF Pages
    <3>2. QED
      BY <1>2, <1>3, <3>1 DEF Tab
  <2>2. \A t \in Tabs : tab'[t].page # "app" => tab[t].page # "app"
    BY <1>2, <1>3
  <2>3. QED
    BY <1>1, <1>2, <2>1, <2>2 DEF Typed, Moves
<1>6. gateway' \in [Logins -> [memo : {"none", "pending", "token", "refused"},
                              open : Nat]]
  BY <1>2
<1>7. CodeInv'
  <2> SUFFICES ASSUME NEW l \in Logins
               PROVE  /\ google'[l].asked <= faults'.restart
                            + (IF gateway'[l].memo = "none" THEN 0 ELSE 1)
                      /\ faults'.lost + faults'.restart # 0
    BY DEF CodeInv
  <2>1. google[l].asked \in Nat /\ faults.restart \in Nat
        /\ google[l].asked <= faults.restart + 1
    BY <1>1, <1>3 DEF CodeInv
  <2>2. QED
    BY <1>2, <1>4, <2>1
<1>8. QED
  BY <1>2, <1>3, <1>4, <1>5, <1>6, <1>7, GatewayStep

-----------------------------------------------------------------------------
(* Payments and the rest *)

LEMMA PaymentKeeps ==
    ASSUME IInv, NEW t \in Tabs, Pay(t) \/ Signs(t) \/ SignatureRefused(t)
    PROVE  IInv'
<1>1. Typed
  BY DEF IInv
<1>2. UNCHANGED <<pageVars, Services, faults>>
  BY DEF Pay, Signs, SignatureRefused
<1>3. payment' \in {NoPayment} \cup [tab : Tabs, session : Sessions]
  <2>1. tab[t].session \in Sessions
    BY <1>1 DEF Typed, Tab
  <2>2. QED
    BY <2>1 DEF Pay, Signs, SignatureRefused
<1>4. Moves
  BY <1>1, <1>2, <1>3 DEF Typed, Moves, pageVars
<1>5. Counts
  BY <1>1, <1>2, FaultCounts
<1>6. epoch' \in Nat /\ UNCHANGED <<login, gateway, google, expired>>
  BY <1>1, <1>2 DEF Typed, Services
<1>7. QED
  BY <1>1, <1>4, <1>5, <1>6, Google, PageStep

LEMMA TimeKeeps ==
    ASSUME IInv, EpochEnds \/ (\E l \in Logins : Expires(l)) \/ UNCHANGED vars
    PROVE  IInv'
<1>1. Typed
  BY DEF IInv
<1>2. /\ UNCHANGED <<tab, local, login, gateway, google, payment, faults>>
      /\ epoch' \in Nat
  BY <1>1 DEF EpochEnds, Expires, vars, pageVars, Typed
<1>3. Typed'
  BY <1>1, <1>2 DEF Typed
<1>4. CodeInv' /\ Numbered' /\ KeyInv'
  BY <1>2, KeysStay DEF IInv, CodeInv
<1>5. QED
  BY <1>3, <1>4 DEF IInv

-----------------------------------------------------------------------------
(* The theorems *)

LEMMA Initially == Init => IInv
<1> SUFFICES ASSUME Init PROVE IInv
  OBVIOUS
<1>1. Typed
  <2>1. tab \in [Tabs -> Tab] /\ \A t \in Tabs : tab[t].page = "app"
    BY Sorts DEF Init
  <2>2. local \in Sessions /\ payment \in {NoPayment}
    BY Sorts DEF Init
  <2>3. /\ login \in [Logins -> [tab : Tabs \cup {"none", Gone}, last : Nat]]
        /\ gateway \in [Logins -> [memo : {"none", "pending", "token", "refused"},
                                   open : Nat]]
        /\ google \in [Logins -> [consent : BOOLEAN, asked : Nat, redeemed : BOOLEAN]]
        /\ epoch \in Nat /\ faults \in [restart : Nat, lost : Nat, user : Nat]
    BY DEF Init
  <2>4. QED
    BY <2>1, <2>2, <2>3 DEF Typed
<1>2. CodeInv
  BY DEF Init, CodeInv
<1>3. Numbered
  <2>1. Begun = {}
    BY DEF Init, Begun
  <2>2. Begun = 1 .. 0 /\ 0 \in 0 .. MaxLogins
    BY <2>1, Sorts
  <2>3. QED
    BY <2>2 DEF Numbered
<1>4. KeyInv
  BY Sorts DEF Init, KeyInv
<1>5. QED
  BY <1>1, <1>2, <1>3, <1>4 DEF IInv

LEMMA NextKeeps == IInv /\ [Next]_vars => IInv'
<1> SUFFICES ASSUME IInv, [Next]_vars PROVE IInv'
  OBVIOUS
<1>1. ASSUME NEW t \in Tabs, Proceed(t) PROVE IInv'
  BY <1>1, TravelKeeps, ProceedKeeps, CallbackKeeps DEF Proceed
<1>2. ASSUME NEW t \in Tabs, User(t) PROVE IInv'
  BY <1>2, BeginKeeps, TravelKeeps, ProceedKeeps, NewTabKeeps, PaymentKeeps DEF User
<1>3. ASSUME NEW t \in Tabs, Signs(t) \/ SignatureRefused(t) PROVE IInv'
  BY <1>3, PaymentKeeps
<1>4. ASSUME NEW l \in Logins, Redeem(l) \/ Expires(l) PROVE IInv'
  BY <1>4, RedeemKeeps, TimeKeeps
<1>5. CASE GatewayRestarts \/ EpochEnds \/ UNCHANGED vars
  BY <1>5, GatewayRestartsKeeps, TimeKeeps
<1>6. QED
  BY <1>1, <1>2, <1>3, <1>4, <1>5 DEF Next

\* The inductive invariant holds always.
THEOREM Invariance == Spec => []IInv
BY Initially, NextKeeps, PTL DEF Spec

\* A code is exchanged once in the gateway's life, and a redeemed code is a token
\* for every later load (zklogin/server.js: exchangeCodeForIdToken).
THEOREM CodeIsSpentOnce == Spec => []CodeSpentOnce
<1>1. IInv => CodeSpentOnce
  <2> SUFFICES ASSUME IInv, NEW l \in Logins
               PROVE  /\ google[l].asked <= 1 + faults.restart
                      /\ google[l].redeemed /\ faults.lost + faults.restart = 0 =>
                            gateway[l].memo = "token"
    BY DEF CodeSpentOnce
  <2>1. google[l].asked \in Nat /\ faults.restart \in Nat
    BY DEF IInv, Typed
  <2>2. QED
    BY <2>1 DEF IInv, CodeInv
<1>2. QED
  BY <1>1, Invariance, PTL

\* A payment with the proof of the tab's last login is refused for lateness only
\* (zklogin.ts: zkSignAndSubmit).
THEOREM KeyFitsProof == Spec => SignsWhereItSignedIn
<1>1. IInv => [\A t \in Tabs :
          LET l == payment.session.login
          IN  /\ Paying(t, "zk") /\ SignatureRefused(t)
              /\ login[l].tab = t
              /\ \A m \in Logins : login[m].tab = t => m <= l
              => epoch > login[l].last]_vars
  <2> SUFFICES ASSUME IInv, NEW t \in Tabs, Paying(t, "zk"), SignatureRefused(t),
                      login[payment.session.login].tab = t,
                      \A m \in Logins : login[m].tab = t => m <= payment.session.login
               PROVE  epoch > login[payment.session.login].last
    OBVIOUS
  <2> DEFINE l == payment.session.login
  <2>1. payment.tab = t /\ Signer(payment.session) = "zk"
    BY DEF Paying
  <2>2. payment \in [tab : Tabs, session : Sessions]
    BY <2>1, Sorts DEF IInv, Typed, NoPayment
  <2>3. l \in Logins
    BY <2>1, <2>2, Sorts DEF Signer
  <2>4. ~Fits(t, payment.session)
    BY <2>1 DEF SignatureRefused, Paying
  <2>5. tab[t].key = l
    <3>1. /\ tab[t].key \in Logins /\ login[tab[t].key].tab = t /\ l <= tab[t].key
      BY <2>3 DEF IInv, KeyInv
    <3>2. tab[t].key <= l
      BY <3>1
    <3>3. l \in Nat /\ tab[t].key \in Nat
      BY <2>3, <3>1, Sorts
    <3>4. ASSUME NEW a \in Nat, NEW b \in Nat, a <= b, b <= a PROVE a = b
      BY <3>4
    <3>5. QED
      <4> HIDE DEF l
      <4> QED BY <3>1, <3>2, <3>3, <3>4
  <2>6. epoch \in Nat /\ login[l].last \in Nat
    BY <2>3 DEF IInv, Typed
  <2>7. QED
    BY <2>4, <2>5, <2>6 DEF Fits
<1>2. QED
  BY <1>1, Invariance, PTL DEF SignsWhereItSignedIn
=============================================================================
