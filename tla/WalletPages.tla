------------------------------ MODULE WalletPages ------------------------------
(***************************************************************************)
(* The wallet's pages together: the handlers of each race with those of the  *)
(* same page only, so the components share no variable, and what is said     *)
(* here is what a person in front of them relies on.                         *)
(***************************************************************************)
EXTENDS OfflineSigner, WalletPay, HotFlows, WalletScreen, HotAccounts, HotVault, VanityPanel, PriceFeed,
        WalletPage, LockedWallet

\* What is signed or sent is what was confirmed: the offline signer's review is
\* of the fields as they are (OfflineSigner.tla), the wallet's sheet is of the
\* network on the screen and one press pays once (WalletPay.tla), the hot wallet
\* sends the bytes its sheet showed, to a key past those listed (HotFlows.tla).
SignedWasShown ==
    /\ CardsAreLive
    /\ SheetIsOfShownNetwork /\ OnePaymentAtATime
    /\ SentWasShown /\ NextKeyIsFresh

\* An answer that comes late is not taken for another's: the mainnet page's coins are
\* of the network on the screen (WalletScreen.tla); the testnet page's receive address
\* is of the account open, and its balances of their type and network unless a
\* network or type was chosen over a lookup that stores regardless (HotAccounts.tla);
\* prices were read recently (PriceFeed.tla).
AnswersAreOfAsked ==
    /\ ScreenIsOfShown /\ TickedAreDrawn
    /\ AddressIsOfAccount /\ BalancesAreOfShownUnlessStraddled
    /\ PricesWereRecent

\* An open wallet can be opened again: the person has its file in the current
\* format (WalletPage.tla), and the file's password gets its secret back
\* (LockedWallet.tla).
OpenWalletHasItsFile == OpenHasItsFile /\ PasswordGetsTheSecret
================================================================================
