------------------------------ MODULE Accounts ------------------------------
(***************************************************************************)
(* The wallet service's users, sessions and the wallets they make          *)
(* (services/wallet/main.go, wallet/wallet.go).  Registration counts the   *)
(* users of a name and then inserts one, and neither main nor anything it  *)
(* calls makes the index that would keep the names unique.  A session is   *)
(* an entry of a map of the process under the second and the name of its   *)
(* login; what a request does is decided by the session's name, looked up  *)
(* in the database anew.  Web requests run concurrently with each other,   *)
(* and with a command line on the same database.                           *)
(*                                                                         *)
(* A password's hash is the password.                                      *)
(***************************************************************************)
EXTENDS Integers, Sequences, FiniteSets

CONSTANTS
  Name, Password,
  Registrant,     \* requests to register
  Browser,
  MaxTime,        \* bound: seconds
  MaxWallets      \* bound: wallets stored

NoSession == <<>>
NoTask == [step |-> "idle"]

VARIABLES
  users,      \* the collection of users, in the order of their insertion
  wallets,    \* that of wallets: owner, and the account that asked for it
  regs,       \* registrations
  sessions,   \* the names in the map of sessions
  cookies,    \* what the browsers hold
  tasks,      \* a login or a request for a wallet of each browser
  account,    \* history: the account whose password a browser has shown
  cli,        \* the command line's loggedInUser, 0 for nil
  now

accVars == <<users, wallets, regs, sessions, cookies, tasks, account, cli, now>>

AccInit ==
  /\ users = <<>> /\ wallets = <<>>
  /\ regs = [g \in Registrant |-> NoTask]
  /\ sessions = [i \in {} |-> ""]
  /\ cookies = [b \in Browser |-> NoSession]
  /\ tasks = [b \in Browser |-> NoTask]
  /\ account = [b \in Browser |-> 0]
  /\ cli = 0 /\ now = 0

Named(n) == {u \in DOMAIN users : users[u].name = n}

\* FindOne by username: the first, 0 for none.
FindUser(n) ==
  IF Named(n) = {} THEN 0 ELSE CHOOSE u \in Named(n) : \A v \in Named(n) : u <= v

\* VerifyPassword against the user found.
Verified(n, p) == Named(n) # {} /\ users[FindUser(n)].password = p

FaultySessionId(second, n) == <<second>>

\* What a session is stored under.
SessionId(second, n) == <<second, n>>
-----------------------------------------------------------------------------
FaultyCountUsers(g, n, p) ==
  /\ regs[g].step = "idle"
  /\ regs' = [regs EXCEPT ![g] =
       [step |-> "insert", name |-> n, password |-> p, counted |-> Len(users)]]
  /\ UNCHANGED <<users, wallets, sessions, cookies, tasks, account, cli, now>>

\* RegisterUser looks for the name, or cannot; then it hashes the password.
CountUsers(g, n, p) ==
  /\ regs[g].step = "idle"
  /\ \/ /\ Named(n) = {}
        /\ regs' = [regs EXCEPT ![g] =
             [step |-> "insert", name |-> n, password |-> p, counted |-> Len(users)]]
     \/ regs' = [regs EXCEPT ![g] = [step |-> "refused"]]
  /\ UNCHANGED <<users, wallets, sessions, cookies, tasks, account, cli, now>>

InsertUser(g) ==
  /\ regs[g].step = "insert"
  /\ \/ /\ users' = Append(users, [name |-> regs[g].name, password |-> regs[g].password])
        /\ regs' = [regs EXCEPT ![g] =
             [step |-> "registered", name |-> @.name, counted |-> @.counted,
              user |-> Len(users) + 1]]
     \/ /\ regs' = [regs EXCEPT ![g] = [step |-> "refused"]]
        /\ UNCHANGED users
  /\ UNCHANGED <<wallets, sessions, cookies, tasks, account, cli, now>>
-----------------------------------------------------------------------------
AuthenticateUser(b, n, p) ==
  /\ tasks[b].step = "idle"
  /\ Verified(n, p)
  /\ tasks' = [tasks EXCEPT ![b] = [step |-> "login", name |-> n, user |-> FindUser(n)]]
  /\ UNCHANGED <<users, wallets, regs, sessions, cookies, account, cli, now>>

\* The session is stored, whatever was there, and the cookie set.
HandleLogin(b) ==
  LET id == SessionId(now, tasks[b].name) IN
  /\ tasks[b].step = "login"
  /\ sessions' = [i \in DOMAIN sessions \cup {id} |->
                    IF i = id THEN tasks[b].name ELSE sessions[i]]
  /\ cookies' = [cookies EXCEPT ![b] = id]
  /\ account' = [account EXCEPT ![b] = tasks[b].user]
  /\ tasks' = [tasks EXCEPT ![b] = NoTask]
  /\ UNCHANGED <<users, wallets, regs, cli, now>>

\* A logout needs no session; it ends that of every browser with the same ID.
HandleLogout(b) ==
  /\ cookies[b] # NoSession
  /\ sessions' = [i \in DOMAIN sessions \ {cookies[b]} |-> sessions[i]]
  /\ cookies' = [cookies EXCEPT ![b] = NoSession]
  /\ UNCHANGED <<users, wallets, regs, tasks, account, cli, now>>

\* A request for a wallet comes in with the cookie and passes requireAuth.
RequireAuth(b) ==
  /\ tasks[b].step = "idle"
  /\ cookies[b] \in DOMAIN sessions
  /\ tasks' = [tasks EXCEPT ![b] =
       [step |-> "auth", cookie |-> cookies[b], by |-> account[b]]]
  /\ UNCHANGED <<users, wallets, regs, sessions, cookies, account, cli, now>>

\* The session may be gone by now; then, or without the database, the request
\* ends with an error.
GetUserFromSession(b) ==
  /\ tasks[b].step = "auth"
  /\ \/ /\ tasks[b].cookie \in DOMAIN sessions
        /\ tasks' = [tasks EXCEPT ![b] =
             [step |-> "make", owner |-> FindUser(sessions[@.cookie]), by |-> @.by]]
     \/ tasks' = [tasks EXCEPT ![b] = NoTask]
  /\ UNCHANGED <<users, wallets, regs, sessions, cookies, account, cli, now>>

\* CreateWallet's insertion: names of wallets may repeat.
StoreWallet(owner, by) ==
  /\ Len(wallets) < MaxWallets
  /\ wallets' = Append(wallets, [owner |-> owner, by |-> by])

\* handleCreateWallet and handleImportWallet: an invalid key or a failed insertion
\* leaves no wallet.
HandleWallet(b) ==
  /\ tasks[b].step = "make"
  /\ StoreWallet(tasks[b].owner, tasks[b].by) \/ UNCHANGED wallets
  /\ tasks' = [tasks EXCEPT ![b] = NoTask]
  /\ UNCHANGED <<users, regs, sessions, cookies, account, cli, now>>
-----------------------------------------------------------------------------
\* The command line: one user at a time, kept as it was found.
CliLogin(n, p) ==
  /\ cli = 0
  /\ Verified(n, p)
  /\ cli' = FindUser(n)
  /\ UNCHANGED <<users, wallets, regs, sessions, cookies, tasks, account, now>>

CliWallet ==
  /\ cli # 0
  /\ StoreWallet(cli, cli)
  /\ UNCHANGED <<users, regs, sessions, cookies, tasks, account, cli, now>>

CliLogout ==
  /\ cli # 0
  /\ cli' = 0
  /\ UNCHANGED <<users, wallets, regs, sessions, cookies, tasks, account, now>>

Tick ==
  /\ now < MaxTime
  /\ now' = now + 1
  /\ UNCHANGED <<users, wallets, regs, sessions, cookies, tasks, account, cli>>

\* The web server's process ends: its sessions and the requests in it are lost,
\* the cookies stay.
RestartServer ==
  /\ sessions' = [i \in {} |-> ""]
  /\ tasks' = [b \in Browser |-> NoTask]
  /\ regs' = [g \in Registrant |->
       IF regs[g].step = "insert" THEN [step |-> "refused"] ELSE regs[g]]
  /\ UNCHANGED <<users, wallets, cookies, account, cli, now>>

AccNext ==
  \/ \E n \in Name, p \in Password :
       \/ \E g \in Registrant : CountUsers(g, n, p)
       \/ \E b \in Browser : AuthenticateUser(b, n, p)
       \/ CliLogin(n, p)
  \/ \E g \in Registrant : InsertUser(g)
  \/ \E b \in Browser :
       \/ HandleLogin(b)
       \/ HandleLogout(b)
       \/ RequireAuth(b)
       \/ GetUserFromSession(b)
       \/ HandleWallet(b)
  \/ CliWallet
  \/ CliLogout
  \/ Tick
  \/ RestartServer

AccSpec == AccInit /\ [][AccNext]_accVars
-----------------------------------------------------------------------------
\* Whom the service has told that he is registered can log in with his password,
\* unless another registration of the name was stored between his count and his
\* insertion.
RegisteredLogsIn ==
  \A g \in Registrant : regs[g].step = "registered" =>
    \/ FindUser(regs[g].name) = regs[g].user
    \/ FindUser(regs[g].name) > regs[g].counted

\* A wallet belongs to the account whose password was shown where it was asked
\* for, though sessions are stored and looked up by name and second, logins of one
\* second and logouts interleave with the requests, and names may repeat.
OwnWallets == \A w \in DOMAIN wallets : wallets[w].owner = wallets[w].by
=============================================================================
