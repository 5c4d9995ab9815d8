------------------------------ MODULE MCPeople ------------------------------
(***************************************************************************)
(* One run for the modules of accounts, pages, messages and the server's    *)
(* own helpers.  They share no state, so their specifications are checked    *)
(* side by side: each behaviour picks one of them and leaves the others as   *)
(* they begin.                                                               *)
(***************************************************************************)
EXTENDS Accounts, Sessions, Passwords, Conversations, Notices, CronRunner,
        RateLimiter, WalletForms, SupportDesk, Backups, AdminPanels, CatalogPage,
        FaucetPage, EarningPages, GameTab, RackPage, Boost, StateFeed, HashScale, Migration

CONSTANTS n1, N1, n2, e1, e2, t1, t2, u1, u2, w1, w2, a1, a2

MCFold == [s \in Spellings |-> IF s = N1 THEN n1 ELSE s]
MCForms == {<<n1, n1>>, <<N1, n2>>, <<n2, N1>>}
MCPanels == [t \in Tickets |-> IF t = t1 THEN {"password", "wallet"} ELSE {"wallet"}]
MCLocalPart == [e \in Emails |-> "same"]
MCWalletOf == [u \in Players |-> IF u = u1 THEN w1 ELSE w2]
Transfer(f, t, w) == [from |-> f, to |-> t, worth |-> w]
MCChain == {Transfer(w1, "game", TRUE), Transfer(w2, "game", TRUE), Transfer(w2, "game", FALSE), Transfer(w1, w2, TRUE)}
OldUser(mail, name, has) == [mail |-> mail, name |-> name, has |-> has]
MCOldUsers == <<OldUser(e1, n1, {"machines", "transactions"}), OldUser(e2, n2, {"machines", "inventory", "checkins", "powers"})>>
MCRequest == Requested(u1, None, {}, {w1})

VARIABLE part

peopleVars == <<
    part, accountsVars, sessionsVars, passwordsVars, adminVars, chatVars,
    noticesVars, privateVars, cronVars, rateVars, walletVars, formVars,
    supportVars, forensicsVars, backupsVars, deskVars, userPanelVars,
    catalogVars, faucetPageVars, tabsVars, gpuPageVars, gameTabVars, rackVars,
    boostVars, feedVars, scaleVars, migrationVars>>

PeopleInit ==
    /\ part \in {
          "accounts", "sessions", "passwords", "admin", "chat", "notices",
          "private", "cron", "rate", "wallet", "form", "support", "forensics",
          "backups", "desk", "users", "catalog", "faucet", "tabs", "gpus",
          "game", "racks", "boost", "feed", "scale", "migration"}
    /\ AccountsInit /\ SessionsInit /\ PasswordsInit /\ AdminInit
    /\ ChatInit /\ NoticesInit /\ PrivateInit /\ CronInit
    /\ RateInit /\ WalletInit /\ FormInit /\ SupportInit
    /\ ForensicsInit /\ BackupsInit /\ DeskInit /\ UserPanelInit
    /\ CatalogInit /\ FaucetPageInit /\ WatchTabsInit /\ GpuPageInit
    /\ GameTabInit /\ RackPageInit /\ BoostInit /\ FeedInit
    /\ ScaleInit /\ MigrationInit
    \* One beginning for the parts that are not picked.
    /\ part # "sessions" => cookie = None
    /\ part # "passwords" => password = CHOOSE w \in Words : TRUE
    /\ part # "forensics" => request = MCRequest
    /\ part # "scale" => catalog = 1
    /\ part # "desk" => desk = "users" /\ status = [r \in Rows |-> CHOOSE s \in Firsts["users"] : TRUE]

\* The part that was picked takes a step.
PeopleNext ==
    /\ UNCHANGED part
    /\ IF part = "accounts" THEN AccountsNext ELSE UNCHANGED accountsVars
    /\ IF part = "sessions" THEN SessionsNext ELSE UNCHANGED sessionsVars
    /\ IF part = "passwords" THEN PasswordsNext ELSE UNCHANGED passwordsVars
    /\ IF part = "admin" THEN AdminNext ELSE UNCHANGED adminVars
    /\ IF part = "chat" THEN ChatNext ELSE UNCHANGED chatVars
    /\ IF part = "notices" THEN NoticesNext ELSE UNCHANGED noticesVars
    /\ IF part = "private" THEN PrivateNext ELSE UNCHANGED privateVars
    /\ IF part = "cron" THEN CronNext ELSE UNCHANGED cronVars
    /\ IF part = "rate" THEN RateNext ELSE UNCHANGED rateVars
    /\ IF part = "wallet" THEN WalletNext ELSE UNCHANGED walletVars
    /\ IF part = "form" THEN FormNext ELSE UNCHANGED formVars
    /\ IF part = "support" THEN SupportNext ELSE UNCHANGED supportVars
    /\ IF part = "forensics" THEN ForensicsNext ELSE UNCHANGED forensicsVars
    /\ IF part = "backups" THEN BackupsNext ELSE UNCHANGED backupsVars
    /\ IF part = "desk" THEN DeskNext ELSE UNCHANGED deskVars
    /\ IF part = "users" THEN UserPanelNext ELSE UNCHANGED userPanelVars
    /\ IF part = "catalog" THEN CatalogNext ELSE UNCHANGED catalogVars
    /\ IF part = "faucet" THEN FaucetPageNext ELSE UNCHANGED faucetPageVars
    /\ IF part = "tabs" THEN WatchTabsNext ELSE UNCHANGED tabsVars
    /\ IF part = "gpus" THEN GpuPageNext ELSE UNCHANGED gpuPageVars
    /\ IF part = "game" THEN GameTabNext ELSE UNCHANGED gameTabVars
    /\ IF part = "racks" THEN RackPageNext ELSE UNCHANGED rackVars
    /\ IF part = "boost" THEN BoostNext ELSE UNCHANGED boostVars
    /\ IF part = "feed" THEN FeedNext ELSE UNCHANGED feedVars
    /\ IF part = "scale" THEN ScaleNext ELSE UNCHANGED scaleVars
    /\ IF part = "migration" THEN MigrationNext ELSE UNCHANGED migrationVars

PeopleSpec == PeopleInit /\ [][PeopleNext]_peopleVars

-----------------------------------------------------------------------------
\* The modules' type invariants.
PeopleTypeOK ==
    /\ part = "accounts" => AccountsTypeOK
    /\ part = "sessions" => SessionsTypeOK
    /\ part = "passwords" => PasswordsTypeOK
    /\ part = "admin" => AdminTypeOK
    /\ part = "chat" => ChatTypeOK
    /\ part = "notices" => NoticesTypeOK
    /\ part = "private" => PrivateTypeOK
    /\ part = "cron" => CronTypeOK
    /\ part = "rate" => RateTypeOK
    /\ part = "wallet" => WalletTypeOK
    /\ part = "form" => FormTypeOK
    /\ part = "support" => SupportTypeOK
    /\ part = "forensics" => ForensicsTypeOK
    /\ part = "backups" => BackupsTypeOK
    /\ part = "desk" => DeskTypeOK
    /\ part = "users" => UserPanelTypeOK
    /\ part = "catalog" => CatalogTypeOK
    /\ part = "faucet" => FaucetPageTypeOK
    /\ part = "tabs" => WatchTabsTypeOK
    /\ part = "gpus" => GpuPageTypeOK
    /\ part = "game" => GameTabTypeOK
    /\ part = "racks" => RackPageTypeOK
    /\ part = "boost" => BoostTypeOK
    /\ part = "feed" => FeedTypeOK
    /\ part = "scale" => ScaleTypeOK
    /\ part = "migration" => MigrationTypeOK

\* Accounts: e-mails and names are distinct, registrations are limited, and a
\* login that got past its checks was justified at one moment.
AccountsAreSound ==
    /\ part = "accounts" => EmailsAreDistinct /\ NamesAreDistinct
                            /\ RegistrationsAreLimited /\ ReferralsAreOrdered
    /\ part = "passwords" => ChecksHeldAtOnce

\* However late its answers are, a page shows what it has been told, and acts
\* on what it shows: the tab's session, the administrator's ticket and panels,
\* the wallet's list and address, and the deposit form's flag and hashes.
PagesAreTrue ==
    /\ part = "sessions" => TabShowsSession /\ SpinnerEnds
    /\ part = "admin" => TypedForShown /\ PanelsOfShown /\ ListIsNotAhead
    /\ part = "wallet" => ActionsAreShown /\ TypedIsKept
    /\ part = "form" => OneTransferAtATime /\ FlagFollowsActions /\ FailedIsInTicket
    /\ part = "desk" => ActsAreListed
    /\ part = "users" => PageIsListed /\ CreditIsForDraft /\ FormComesBack
    /\ part = "catalog" => RatesAreTyped /\ ImagesAreOwn /\ SavesOwnForm

\* The pages on which a player earns: what the faucet and the games offer is
\* what the server holds, one tab counts a video's time, the GPUs run while
\* they are switched on, the racks shown catch up with the server's, and so
\* does the history of blocks.
PlayerPagesAreTrue ==
    /\ part = "faucet" => OfferIsGood /\ VisitOpensClaim
    /\ part = "tabs" => OneTabCounts /\ SomeTabCounts
    /\ part = "gpus" => RunsAsSwitched
    /\ part = "game" => BoardIsLive /\ ReportIsFinal
    /\ part = "racks" => ListsCatchUp
    /\ part = "feed" => HistoryIsShown

\* Messages, notifications and conversations: each is stored once, none is
\* lost on its way, and the list shown is that of the conversation chosen.
MessagesArrive ==
    /\ part = "chat" => SentOnce /\ NothingVanishes /\ ConvOfChosen
    /\ part = "notices" => NewestAreShown /\ ReadStaysRead
    /\ part = "private" => ConversationIsShown

\* The server's helpers: jobs do not overlap and their locks are released, the
\* limiter's counts are neither lost nor kept too long, password requests end
\* with an account, an administrator is shown every deposit once, a boost runs
\* while it is paid for, blocks are numbered on across restarts, and the scripts on
\* stored hash rates and on old accounts can be run again.
ServerKeepsCount ==
    /\ part = "cron" => JobsDoNotOverlap /\ LocksAreHeld
    /\ part = "rate" => StaleIsOver /\ LimitHolds /\ ModestAreServed
    /\ part = "support" => RecoveryIsLinked /\ RepliesAreFlagged /\ ToldIsMailed
    /\ part = "forensics" => EachIsShownOnce /\ DepositsAreShown
    /\ part = "backups" => HistoryIsKept
    /\ part = "boost" => WorkIsBoostedInTime /\ PaidBoostRuns /\ BoostIsPaidOrDue
    /\ part = "feed" => BlocksAreNumberedOn
    /\ part = "scale" => CountedAsFair /\ NoFactorTwice
    /\ part = "migration" => LooseRowsOnce /\ CompletedIsWhole
=============================================================================
