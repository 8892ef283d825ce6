-------------------------------- MODULE WalletScreen --------------------------------
(***************************************************************************)
(* The owner's wallet: payouts that are previewed, asked for and withdrawn *)
(* again, and the mobile money wallets they go to, which the phone links   *)
(* and verifies by itself.  The service that pays is the one of            *)
(* MerchantSettlement, reduced to what the screen can tell.  A call and    *)
(* what becomes of it is one step, its answer and what is read then are    *)
(* later ones.                                                             *)
(***************************************************************************)
EXTENDS Integers, FiniteSets

CONSTANTS
  Numbers,       \* mobile money numbers
  PayMin,        \* the least amount that is paid out, in halves of a pesewa
  PayCeiling,    \* above it an admin has to approve
  PayBalance,    \* what the business has at first
  PayAmounts,    \* the amounts that are entered
  MaxVisits,     \* bound: times the form of a payout is opened
  MaxSent,       \* bound: calls in flight
  WalletUses     \* how the screen is used

Visit == 1..MaxVisits

ASSUME WalletAssumption ==
  /\ {PayMin, PayCeiling, PayBalance, MaxVisits, MaxSent} \subseteq Nat /\ IsFiniteSet(Numbers)
  /\ PayAmounts \subseteq Nat \ {0} /\ PayCeiling % 2 = 0
  /\ WalletUses \subseteq [part: {"payouts", "wallets"}, failures: BOOLEAN, visits: Visit, calls: 1..MaxSent]

VARIABLES
  use,     \* the circumstances of a behaviour
  bank,    \* balance, latest payout and wallets of the business, on the server
  screen,  \* the screen, with what it last read
  sent     \* the calls in flight

walletVars == <<use, bank, screen, sent>>

Unlinked == [state |-> "none", primary |-> FALSE]
Wallets == [Numbers -> [state: {"none", "pending", "verified"}, primary: BOOLEAN]]
Payouts == [status: {"none", "pending", "processing", "completed", "cancelled"},
            amount: Nat, told: BOOLEAN]

\* "taken" counts the payouts taken from each opening of the form, "unheard"
\* are the openings with an answer that was lost.  An amount is previewed at
\* most once at a time: "awaited", "payable", "refused" or "failed".
WalletTypeOK ==
  /\ use \in WalletUses
  /\ bank \in [balance: 0..PayBalance, payout: Payouts, taken: [Visit -> Nat], wallets: Wallets, dva: BOOLEAN]
  /\ screen \in [form: {"none", "payout", "wallet"}, amount: Nat,
                 visit: 0..MaxVisits, unheard: SUBSET Visit, balance: 0..PayBalance, payout: Payouts,
                 previews: [PayAmounts -> {"none", "awaited", "payable", "held", "refused", "failed"}],
                 wallets: Wallets, tried: SUBSET Numbers, dva: BOOLEAN]
  /\ sent \subseteq [what: {"preview", "request", "cancel", "add", "selfverify", "verify", "bootstrap", "dva"},
                     about: Nat, of: SUBSET Numbers, wallets: Wallets, ok: BOOLEAN]

WalletInit ==
  /\ use \in WalletUses
  /\ \E first \in Numbers :
       LET linked == [n \in Numbers |-> IF use.part = "payouts" /\ n = first
                                       THEN [state |-> "verified", primary |-> TRUE] ELSE Unlinked]
       IN
        /\ bank = [balance |-> PayBalance, payout |-> [status |-> "none", amount |-> 0, told |-> FALSE],
                   taken |-> [v \in Visit |-> 0], wallets |-> linked, dva |-> FALSE]
        /\ screen = [form |-> "none", amount |-> 0, visit |-> 0, unheard |-> {},
                     balance |-> PayBalance, payout |-> bank.payout, previews |-> [a \in PayAmounts |-> "none"],
                     wallets |-> linked, tried |-> {}, dva |-> FALSE]
  /\ sent = {}

PayPart == use.part = "payouts"
WalletPart == use.part = "wallets"
Outstanding(what) == \E c \in sent : c.what = what
WalletCall(what, about, of, ok) == [what |-> what, about |-> about, of |-> of, wallets |-> bank'.wallets, ok |-> ok]

\* The calls are refused, or their answers lost, when failures are on.
SendsCall(what, about, of, ok) ==
  /\ Cardinality(sent) < use.calls
  /\ sent' = sent \cup {WalletCall(what, about, of, ok)}

-----------------------------------------------------------------------------
(* The service *)

InFlight(payout) == payout.status \in {"pending", "processing"}
Destination == {n \in Numbers : bank.wallets[n].primary /\ bank.wallets[n].state = "verified"}
Payable(amount) == PayMin <= amount /\ amount <= bank.balance

\* A payout that needs no approval is sent at once, which takes its amount
\* off the balance.
Granted(amount) == Payable(amount) /\ ~InFlight(bank.payout) /\ Destination # {}
Grant(amount, told) ==
  LET held == amount > PayCeiling IN
  [bank EXCEPT !.payout = [status |-> IF held THEN "pending" ELSE "processing", amount |-> amount, told |-> told],
               !.taken[screen.visit] = @ + 1,
               !.balance = IF held THEN @ ELSE @ - amount]

\* The bank transfers what is on its way.
Transferred ==
  /\ bank.payout.status = "processing"
  /\ bank' = [bank EXCEPT !.payout.status = "completed"]
  /\ UNCHANGED <<use, screen, sent>>

\* An admin approves.
Approved ==
  /\ bank.payout.status = "pending"
  /\ bank' = [bank EXCEPT !.payout.status = "processing", !.balance = @ - bank.payout.amount]
  /\ UNCHANGED <<use, screen, sent>>

\* Linking a number again overwrites its record; a primary one comes alone.
LinkedNumbers(n, primary) ==
  [m \in Numbers |-> IF m = n THEN [state |-> "pending", primary |-> primary]
                     ELSE [bank.wallets[m] EXCEPT !.primary = @ /\ ~primary]]
SelfVerified(n) == [bank.wallets EXCEPT ![n].state = "verified"]

-----------------------------------------------------------------------------
(* Payouts *)

\* The lists are read when the screen is shown, after a change, or when pulled.
RefetchBalance ==
  /\ PayPart
  /\ screen' = [screen EXCEPT !.balance = bank.balance, !.payout = bank.payout]
  /\ screen' # screen
  /\ UNCHANGED <<use, bank, sent>>

OpenRequestPayout ==
  /\ PayPart /\ screen.form = "none" /\ screen.visit < use.visits
  /\ screen.balance \in PayAmounts /\ ~InFlight(screen.payout)
  /\ screen' = [screen EXCEPT !.form = "payout", !.amount = screen.balance, !.visit = @ + 1]
  /\ UNCHANGED <<use, bank, sent>>

EnterAmount ==
  /\ screen.form = "payout"
  /\ \E amount \in PayAmounts \ {screen.amount} : screen' = [screen EXCEPT !.amount = amount]
  /\ UNCHANGED <<use, bank, sent>>

CloseWalletForm ==
  /\ screen.form # "none"
  /\ screen' = [screen EXCEPT !.form = "none"]
  /\ UNCHANGED <<use, bank, sent>>

\* The preview of the amount that is entered is read when the screen has none,
\* or an old one.
ReadPreview ==
  /\ screen.form = "payout" /\ screen.amount # 0
  /\ ~\E c \in sent : c.what = "preview" /\ c.about = screen.amount
  /\ UNCHANGED <<use, bank>>
  /\ \E ok \in {TRUE, ~use.failures} : SendsCall("preview", screen.amount, {}, ok)
  /\ screen' = [screen EXCEPT !.previews[screen.amount] = IF @ \in {"none", "failed"} THEN "awaited" ELSE @]

\* Mutant: the preview of one amount stays until the next one is there.
PreviewAnswered_kept ==
  \E c \in sent :
    /\ c.what = "preview"
    /\ screen' = [screen EXCEPT !.previews = [a \in PayAmounts |->
         IF c.ok THEN (IF ~Payable(c.about) THEN "refused" ELSE IF c.about > PayCeiling THEN "held" ELSE "payable")
         ELSE @[a]]]
    /\ sent' = sent \ {c}
    /\ UNCHANGED <<use, bank>>

\* An old preview outlives a failure to read a new one.
PreviewAnswered ==
  \E c \in sent :
    /\ c.what = "preview"
    /\ screen' = [screen EXCEPT !.previews[c.about] =
         IF c.ok THEN (IF ~Payable(c.about) THEN "refused" ELSE IF c.about > PayCeiling THEN "held" ELSE "payable")
         ELSE IF @ = "awaited" THEN "failed" ELSE @]
    /\ sent' = sent \ {c}
    /\ UNCHANGED <<use, bank>>

\* What the form says of the amount that is entered: the preview, or what the
\* screen knows by itself.
Preview == screen.previews[screen.amount]
Believed == PayMin <= screen.amount /\ screen.amount <= screen.balance
CanSettle == Preview \in {"payable", "held"} \/ (Preview \in {"none", "failed"} /\ Believed)
ToldOfApproval == Preview = "held" \/ (Preview # "payable" /\ screen.amount > PayCeiling)
PrimaryShown == {n \in Numbers : screen.wallets[n].primary /\ screen.wallets[n].state = "verified"}

PayoutFormReady == screen.form = "payout" /\ ~Outstanding("request") /\ Preview # "awaited"
                   /\ PrimaryShown # {} /\ CanSettle

\* The amount is sent with two decimals.
Rounded(amount) == 2 * ((amount + 1) \div 2)

SubmitRequestPayout ==
  /\ PayoutFormReady /\ screen.amount > 0
  /\ \E heard \in {TRUE, ~use.failures} :
       LET granted == Granted(Rounded(screen.amount))
       IN /\ bank' = IF granted THEN Grant(Rounded(screen.amount), ToldOfApproval) ELSE bank
          /\ SendsCall("request", screen.visit, {}, granted /\ heard)
          /\ screen' = [screen EXCEPT !.unheard = IF heard THEN @ ELSE @ \cup {screen.visit}]
  /\ UNCHANGED use

\* A payout that is taken closes the form, a refusal leaves it open.
RequestAnswered ==
  \E c \in sent :
    /\ c.what = "request"
    /\ screen' = [screen EXCEPT !.form = IF c.ok THEN "none" ELSE @]
    /\ sent' = sent \ {c}
    /\ UNCHANGED <<use, bank>>

\* Only a payout that is pending can be withdrawn, on the screen and on the server.
CancelSettlement ==
  /\ PayPart /\ screen.form = "none"
  /\ screen.payout.status = "pending" /\ ~Outstanding("cancel")
  /\ \E heard \in {TRUE, ~use.failures} :
       /\ bank' = IF bank.payout.status = "pending" THEN [bank EXCEPT !.payout.status = "cancelled"] ELSE bank
       /\ SendsCall("cancel", 0, {}, heard /\ bank.payout.status = "pending")
  /\ UNCHANGED <<use, screen>>

\* The answer is told to the owner; the lists are read anew.
CancelAnswered ==
  \E c \in sent :
    /\ c.what = "cancel"
    /\ sent' = sent \ {c}
    /\ UNCHANGED <<use, bank, screen>>

-----------------------------------------------------------------------------
(* The wallets, and the account for bank transfers *)

\* The phone verifies a wallet by itself once: this runs before anything is
\* tapped.
Unverified == {n \in Numbers : screen.wallets[n].state = "pending"}
VerifyDue == WalletPart /\ ~Outstanding("verify") /\ Unverified \ screen.tried # {} /\ Cardinality(sent) < use.calls

VerifyNumber(n) ==
  \E reached \in {TRUE, ~use.failures}, heard \in {TRUE, ~use.failures} :
    /\ bank' = IF reached THEN [bank EXCEPT !.wallets = SelfVerified(n)] ELSE bank
    /\ SendsCall("verify", 0, {n}, reached /\ heard)
    /\ UNCHANGED use

AutoVerify ==
  /\ VerifyDue
  /\ \E n \in Unverified \ screen.tried :
       VerifyNumber(n) /\ screen' = [screen EXCEPT !.tried = @ \cup {n}]

VerifyWallet ==
  /\ WalletPart /\ screen.form = "none" /\ ~Outstanding("verify")
  /\ \E n \in Unverified : VerifyNumber(n) /\ UNCHANGED screen

\* A wallet that the server answers with replaces the phone's.
Replaced(n, record) ==
  [m \in Numbers |-> IF m = n THEN record
                     ELSE [screen.wallets[m] EXCEPT !.primary = @ /\ ~record.primary]]

\* The session is read anew after a change.
Bootstrapped(c) == (sent \ {c}) \cup {WalletCall("bootstrap", 0, {}, TRUE)}

VerifyAnswered ==
  \E c \in sent : \E n \in c.of :
    /\ c.what = "verify"
    /\ screen' = [screen EXCEPT !.wallets = IF c.ok THEN Replaced(n, c.wallets[n]) ELSE @]
    /\ UNCHANGED <<use, bank>>
    /\ sent' = IF c.ok THEN Bootstrapped(c) ELSE sent \ {c}

BootstrapAnswered ==
  \E c \in sent :
    /\ c.what = "bootstrap"
    /\ screen' = [screen EXCEPT !.wallets = c.wallets]
    /\ sent' = sent \ {c}
    /\ UNCHANGED <<use, bank>>

OpenAddWallet ==
  /\ WalletPart /\ screen.form = "none"
  /\ screen' = [screen EXCEPT !.form = "wallet"]
  /\ UNCHANGED <<use, bank, sent>>

\* The first wallet of the phone's list becomes the primary one.
LinkWallet ==
  /\ screen.form = "wallet" /\ ~Outstanding("add") /\ ~Outstanding("selfverify")
  /\ \E n \in Numbers, reached \in {TRUE, ~use.failures}, heard \in {TRUE, ~use.failures} :
       /\ bank' = IF reached THEN [bank EXCEPT !.wallets =
                    LinkedNumbers(n, \A m \in Numbers : screen.wallets[m].state = "none")] ELSE bank
       /\ SendsCall("add", 0, {n}, reached /\ heard)
  /\ UNCHANGED <<use, screen>>

\* The new wallet is verified before it is shown.
LinkAnswered ==
  \E c \in sent : \E n \in c.of, reached \in {TRUE, ~use.failures} :
    /\ c.what = "add"
    /\ bank' = IF c.ok /\ reached THEN [bank EXCEPT !.wallets = SelfVerified(n)] ELSE bank
    /\ sent' = (sent \ {c}) \cup IF ~c.ok THEN {} ELSE
         {[WalletCall("selfverify", 0, {n}, TRUE) EXCEPT !.wallets = IF reached THEN @ ELSE c.wallets]}
    /\ UNCHANGED <<use, screen>>

\* The form is closed although another number may be in it by now.
LinkedAndVerified ==
  \E c \in sent : \E n \in c.of :
    /\ c.what = "selfverify"
    /\ screen' = [screen EXCEPT !.wallets = Replaced(n, c.wallets[n]), !.form = "none"]
    /\ UNCHANGED <<use, bank>>
    /\ sent' = Bootstrapped(c)

\* The account for bank transfers is set up again on demand.
RetryDva ==
  /\ WalletPart /\ screen.form = "none" /\ ~screen.dva /\ ~Outstanding("dva")
  /\ \E given \in BOOLEAN :
       /\ bank' = [bank EXCEPT !.dva = @ \/ given]
       /\ SendsCall("dva", 0, {}, bank'.dva)
  /\ UNCHANGED <<use, screen>>

DvaAnswered ==
  \E c \in sent :
    /\ c.what = "dva"
    /\ screen' = [screen EXCEPT !.dva = c.ok]
    /\ sent' = sent \ {c}
    /\ UNCHANGED <<use, bank>>

-----------------------------------------------------------------------------
WalletAnswers ==
  \/ PreviewAnswered \/ RequestAnswered \/ CancelAnswered
  \/ VerifyAnswered \/ BootstrapAnswered \/ LinkAnswered \/ LinkedAndVerified \/ DvaAnswered

WalletTaps ==
  \/ RefetchBalance \/ OpenRequestPayout \/ EnterAmount \/ ReadPreview \/ SubmitRequestPayout
  \/ CancelSettlement \/ CloseWalletForm
  \/ VerifyWallet \/ OpenAddWallet \/ LinkWallet \/ RetryDva

WalletNext ==
  \/ AutoVerify
  \/ ~VerifyDue /\ (WalletTaps \/ WalletAnswers \/ Transferred \/ Approved)

WalletSpec == WalletInit /\ [][WalletNext]_walletVars

-----------------------------------------------------------------------------
(* A payout waits for an admin only when the form said so: through old     *)
(* previews, failed ones, changed amounts and the rounding of what is sent.*)
HeldAsTold == bank.payout.status = "pending" => bank.payout.told

(* One opening of the form leads to one payout, unless an answer was lost. *)
OncePerForm == \A v \in Visit : bank.taken[v] <= 1 \/ v \in screen.unheard

(* At most one wallet is the primary one, on the server and on the phone,  *)
(* in whatever order the answers come.                                     *)
OnePrimary ==
  \A m, n \in Numbers : m # n =>
    ~(bank.wallets[m].primary /\ bank.wallets[n].primary)
    /\ ~(screen.wallets[m].primary /\ screen.wallets[n].primary)

(* What the owner asks for is what the server does: one payout for a form,   *)
(* held only if the form said so, to the one primary wallet.                 *)
PaidOutAsTold == HeldAsTold /\ OncePerForm /\ OnePrimary
=============================================================================
