-------------------------------- MODULE SignIn ------------------------------
(***************************************************************************)
(* Signing in: app/main.c's server, sign-in and Quick Connect screens, the *)
(* requests they send through the fetcher, and what the application does   *)
(* with each reply whenever it comes -- against a server that gives this   *)
(* device one valid token at a time (docs/jellyfin.md:187-195), and a      *)
(* network that may fail.  auth_generation is what a task's `live` flag    *)
(* stands for: counting it on outdates every sign-in task in the pool.     *)
(* A screen opened from home, whichever, is "away".                        *)
(***************************************************************************)
EXTENDS Fetcher

CONSTANTS Servers,       \* addresses
          Stored,        \* the credentials file at the first start
          MaxEvents,     \* bound: what the user does in one behaviour, and
                         \* requests the network or the server fails, together
          MaxTokens,     \* bound: tokens a server numbers; then it repeats itself
          MaxSecrets     \* bound: Quick Connect codes, likewise

ASSUME BoundsAssumption ==
  {MaxEvents, MaxTokens, MaxSecrets} \subseteq Nat

VARIABLES
  screen, session,       \* screen; session: its url, token and password
  saved,                 \* the credentials file
  connecting, relogins,  \* connecting, relogin_attempts
  secret,                \* quick_secret
  backend,               \* external: the valid token of each server, codes
                         \* given and approved
  asked,                 \* history: a sign-in is wanted and not yet given up
  events

uiVars == <<screen, session, saved, connecting, relogins, secret, asked>>
vars == <<fetcher, uiVars, backend, events>>

None == 0
Token(s, n) == [at |-> s, n |-> n]
NoToken == Token("none", None)
Session(url, token, password) == [url |-> url, token |-> token, password |-> password]
AuthJobs == {"probe", "login", "initiate", "poll", "authenticate"}
Ask(text, code) == [text |-> text, code |-> code]
Nothing == Ask("none", None)
Reply(error, token, code) == [error |-> error, token |-> token, code |-> code]
Step(n, bound) == IF n < bound THEN n + 1 ELSE n

-----------------------------------------------------------------------------
(* What the handlers are made of; each takes the fetcher and returns it.   *)

Outdated(f) ==
  [f EXCEPT !.tasks = [i \in SlotIds |->
     IF f.tasks[i] # Free /\ f.tasks[i].job \in AuthJobs
     THEN [f.tasks[i] EXCEPT !.live = FALSE] ELSE f.tasks[i]]]

HomeLoading(f) ==
  LET request == Task("home", Nothing)     \* resume, next up and views alike
  IN Submitted(Submitted(Submitted(f, request), request), request)

Launched(s) ==
  /\ fetcher = IF s.token # NoToken THEN HomeLoading(Empty(s)) ELSE Empty(s)
  /\ screen = IF s.token # NoToken THEN "home" ELSE IF s.url # "none" THEN "auth" ELSE "server"
  /\ session = s /\ connecting = FALSE /\ relogins = 0 /\ secret = None
  /\ asked = FALSE

Init ==
  /\ saved \in Stored /\ Launched(saved)
  /\ \E latest \in {1, 2}:
       backend = [valid |-> [s \in Servers |-> latest], codes |-> 0, approved |-> {}]
  /\ events = 0

(* The rest of each handler releases `done`, the task it consumed: not     *)
(* before, so that what it submits meanwhile needs another slot.           *)

(* Mutant: the workers are not told.                                       *)
UseServerUntold(s, done) ==
  /\ session' = [session EXCEPT !.url = s]
  /\ fetcher' = Released(Outdated(fetcher), done)
  /\ screen' = "auth" /\ asked' = FALSE
  /\ UNCHANGED <<saved, relogins, secret>>

UseServer(s, done) ==
  /\ session' = [session EXCEPT !.url = s]
  /\ fetcher' = Released(WithSession(Outdated(fetcher), session'), done)
  /\ screen' = "auth" /\ asked' = FALSE
  /\ UNCHANGED <<saved, relogins, secret>>

SignedIn(token, password, done) ==
  /\ session' = Session(session.url, token, password)
  /\ fetcher' = Released(HomeLoading(WithSession(Outdated(fetcher), session')), done)
  /\ saved' = session' /\ relogins' = 0 /\ screen' = "home" /\ asked' = FALSE
  /\ UNCHANGED <<connecting, secret>>

SignOut(done) ==
  /\ session' = Session(session.url, NoToken, "none")
  /\ fetcher' = Released(WithSession(Outdated(fetcher), session'), done)
  /\ saved' = session' /\ relogins' = 0 /\ screen' = "auth" /\ asked' = FALSE
  /\ UNCHANGED <<connecting, secret>>

MayRelogin == session.password # "none" /\ relogins < 2 /\ FreeSlots(fetcher) # {}

(* reauthenticate, "bounded, or a server that rejects a valid-looking      *)
(* password turns into a login loop" (main.c:1131); without it, the user   *)
(* is signed out.                                                          *)
Reauthenticate(done) ==
  IF MayRelogin
  THEN /\ fetcher' = Released(Submitted(fetcher,
                       Task("login", Ask(session.password, None))), done)
       /\ relogins' = relogins + 1 /\ asked' = TRUE
       /\ UNCHANGED <<screen, session, saved, connecting, secret>>
  ELSE SignOut(done)

ShowSignIn(done) ==
  /\ screen' = "auth" /\ fetcher' = Released(fetcher, done)
  /\ UNCHANGED <<session, saved, connecting, relogins, secret, asked>>

OnlyRelease(done) == fetcher' = Released(fetcher, done) /\ UNCHANGED uiVars

-----------------------------------------------------------------------------
(* consume, one task at a time: pump takes the lowest finished one until   *)
(* there is none.                                                          *)

Failed(i, job, error) ==
  CASE job = "probe" ->
         /\ connecting' = FALSE /\ fetcher' = Released(fetcher, i)
         /\ UNCHANGED <<screen, session, saved, relogins, secret, asked>>
    [] job = "home" ->
         IF error = "unauthorized" THEN Reauthenticate(i)
         ELSE IF error = "status" THEN ShowSignIn(i) ELSE OnlyRelease(i)
    [] job = "login" -> IF relogins # 0 THEN SignOut(i) ELSE OnlyRelease(i)
    [] job = "item" ->
         IF error \in {"unauthorized", "status"} THEN ShowSignIn(i) ELSE OnlyRelease(i)
    [] OTHER -> OnlyRelease(i)

AuthenticatingNothing(f) ==    \* mutant: without the secret
  Submitted(f, Task("authenticate", Nothing))
Authenticating(f) == Submitted(f, Task("authenticate", Ask("none", secret)))

Ready(i, task) ==
  CASE task.job = "probe" -> connecting' = FALSE /\ UseServer(task.ask.text, i)
    [] task.job = "login" -> SignedIn(task.reply.token, task.ask.text, i)
    [] task.job = "authenticate" -> SignedIn(task.reply.token, "none", i)
    [] task.job = "initiate" ->
         /\ secret' = task.reply.code /\ screen' = "quick" /\ fetcher' = Released(fetcher, i)
         /\ UNCHANGED <<session, saved, connecting, relogins, asked>>
    [] task.job = "poll" /\ task.reply.code # None ->
         /\ fetcher' = Released(Authenticating(fetcher), i)
         /\ UNCHANGED uiVars
    [] OTHER -> OnlyRelease(i)

Consume(i) ==
  /\ IsNext(i)
  /\ LET task == fetcher.tasks[i]
     IN IF task.job \in AuthJobs /\ ~task.live THEN OnlyRelease(i)
        ELSE IF task.state = "failed" THEN Failed(i, task.job, task.reply.error)
        ELSE Ready(i, task)
  /\ UNCHANGED <<backend, events>>

(* The rest of pump, once nothing is left to consume: a poll every two     *)
(* seconds while the code is shown, whatever polls are still out.          *)
Poll ==
  /\ Finished = {} /\ screen = "quick" /\ secret # None
  /\ fetcher' = Submitted(fetcher, Task("poll", Ask("none", secret)))
  /\ UNCHANGED <<uiVars, backend, events>>

-----------------------------------------------------------------------------
(* The user.                                                               *)

Event == events < MaxEvents /\ events' = events + 1
Press == Event /\ UNCHANGED backend

Connect(s) ==        \* activate_server: the typed address
  /\ Press /\ screen = "server"
  /\ fetcher' = Submitted(fetcher, Task("probe", Ask(s, None)))
  /\ connecting' = (connecting \/ FreeSlots(fetcher) # {})
  /\ UNCHANGED <<screen, session, saved, relogins, secret, asked>>

Choose(s) ==         \* activate_server: a discovered one; connecting stays
  /\ Press /\ screen = "server" /\ UseServer(s, 0) /\ UNCHANGED connecting

LogIn(password) ==
  /\ Press /\ screen = "auth"
  /\ fetcher' = Submitted(fetcher, Task("login", Ask(password, None))) /\ asked' = TRUE
  /\ UNCHANGED <<screen, session, saved, connecting, relogins, secret>>

QuickConnect ==
  /\ Press /\ screen = "auth"
  /\ fetcher' = Submitted(fetcher, Task("initiate", Nothing)) /\ asked' = TRUE
  /\ UNCHANGED <<screen, session, saved, connecting, relogins, secret>>

BackFromSignInKeeping ==   \* mutant: the attempts stay current
  /\ screen = "auth" /\ screen' = "server" /\ asked' = FALSE
  /\ UNCHANGED <<fetcher, session, saved, connecting, relogins, secret>>
BackFromSignIn ==
  /\ screen = "auth" /\ screen' = "server" /\ asked' = FALSE
  /\ fetcher' = Outdated(fetcher)
  /\ UNCHANGED <<session, saved, connecting, relogins, secret>>
BackFromConnecting ==
  /\ screen = "server" /\ connecting /\ connecting' = FALSE
  /\ fetcher' = Outdated(fetcher)
  /\ UNCHANGED <<screen, session, saved, relogins, secret, asked>>
BackFromQuick ==
  /\ screen = "quick" /\ screen' = "auth" /\ secret' = None /\ asked' = FALSE
  /\ fetcher' = Outdated(fetcher)
  /\ UNCHANGED <<session, saved, connecting, relogins>>
BackHome ==
  /\ screen = "away" /\ screen' = "home"
  /\ UNCHANGED <<fetcher, session, saved, connecting, relogins, secret, asked>>
GoBack == Press /\ (BackFromSignIn \/ BackFromConnecting \/ BackFromQuick \/ BackHome)

OpenItem ==
  /\ Press /\ screen = "home" /\ screen' = "away"
  /\ fetcher' = Submitted(fetcher, Task("item", Nothing))
  /\ UNCHANGED <<session, saved, connecting, relogins, secret, asked>>

SignOutPressed == Press /\ screen \notin {"server", "auth"} /\ SignOut(0)

(* Back from home or from the server screen leaves; so does the TV, at any *)
(* moment.  The next start reads the file.                                 *)
Relaunch ==
  /\ Press /\ UNCHANGED saved
  /\ session' = saved /\ connecting' = FALSE /\ relogins' = 0 /\ secret' = None
  /\ asked' = FALSE
  /\ IF saved.token # NoToken
     THEN screen' = "home" /\ fetcher' = HomeLoading(Empty(saved))
     ELSE /\ screen' = (IF saved.url # "none" THEN "auth" ELSE "server")
          /\ fetcher' = Empty(saved)

User ==
  \/ \E s \in Servers: Connect(s) \/ Choose(s)
  \/ \E p \in {"right", "wrong"}: LogIn(p)
  \/ QuickConnect \/ GoBack \/ OpenItem \/ SignOutPressed \/ Relaunch

-----------------------------------------------------------------------------
(* The workers, and the server they ask.                                   *)

TakeTask == Take /\ UNCHANGED <<uiVars, backend, events>>

Says(i, state, reply) ==
  fetcher' = Answered(fetcher, i, state, reply) /\ UNCHANGED <<uiVars, events>>
Issues(i, s) ==
  /\ backend' = [backend EXCEPT !.valid[s] = Step(@, MaxTokens)]
  /\ Says(i, "ready", Reply("none", Token(s, backend'.valid[s]), None))
Grants(i, code) == Says(i, "ready", Reply("none", NoToken, code)) /\ UNCHANGED backend
Refuses(i) ==
  Says(i, "failed", Reply("unauthorized", NoToken, None)) /\ UNCHANGED backend

Serve(i) ==
  /\ i \in Running
  /\ LET task == fetcher.tasks[i]
         url == task.session.url
     IN CASE task.job = "probe" -> Grants(i, None)
          [] task.job = "login" -> IF task.ask.text = "right" THEN Issues(i, url) ELSE Refuses(i)
          [] task.job = "initiate" ->
               /\ backend' = [backend EXCEPT !.codes = Step(@, MaxSecrets)]
               /\ Says(i, "ready", Reply("none", NoToken, backend'.codes))
          [] task.job = "poll" ->
               Grants(i, IF task.ask.code \in backend.approved THEN task.ask.code ELSE None)
          [] task.job = "authenticate" ->
               IF task.ask.code \in backend.approved THEN Issues(i, url) ELSE Refuses(i)
          [] OTHER ->
               IF task.session.token = Token(url, backend.valid[url])
               THEN Grants(i, None) ELSE Refuses(i)

Fail(i) ==
  /\ i \in Running /\ Event
  /\ \E error \in {"status", "network"}: 
       fetcher' = Answered(fetcher, i, "failed", Reply(error, NoToken, None))
  /\ UNCHANGED <<uiVars, backend>>

(* On another device, the user enters the code shown.                      *)
Approve ==
  /\ screen = "quick" /\ secret \notin backend.approved
  /\ backend' = [backend EXCEPT !.approved = @ \cup {secret}]
  /\ UNCHANGED <<fetcher, uiVars, events>>

Next ==
  \/ User \/ Poll \/ TakeTask \/ Approve
  \/ \E i \in SlotIds: Consume(i) \/ Serve(i) \/ Fail(i)

Spec == Init /\ [][Next]_vars

(* The UI's loop, the workers and the server run on; the network fails     *)
(* only so many times.                                                     *)
FairSpec ==
  /\ Spec /\ WF_vars(Poll) /\ WF_vars(TakeTask)
  /\ \A i \in SlotIds: WF_vars(Consume(i) \/ Serve(i))

-----------------------------------------------------------------------------
(* Every variable has its type.                                            *)
Tokens == {NoToken} \cup [at: Servers, n: 1..MaxTokens]
Sessions == [url: Servers \cup {"none"}, token: Tokens, password: {"none", "right", "wrong"}]
TypeOK ==
  /\ screen \in {"server", "auth", "quick", "home", "away"}
  /\ session \in Sessions /\ saved \in Sessions /\ fetcher.session \in Sessions
  /\ connecting \in BOOLEAN /\ relogins \in 0..2 /\ secret \in 0..MaxSecrets
  /\ asked \in BOOLEAN /\ events \in 0..MaxEvents

(* The token in use, and the one in the file, is one that their server     *)
(* gave: whatever was in flight when the server was changed.               *)
TokenBelongsToServer ==
  /\ screen \in {"home", "away"} => session.token.at = session.url
  /\ saved.token # NoToken => saved.token.at = saved.url

(* "Back cancels the UI's interest in pending sign-in / Quick Connect      *)
(* replies" (main.c:698): nobody is signed in who has not asked since.     *)
NoUnaskedSignIn ==
  [][session'.token # session.token /\ session'.token # NoToken => asked \/ Event]_vars

(* An approved poll's reply is consumed while every slot is taken, its own *)
(* too: there is none for the request that would sign in (main.c:1387).    *)
Starved ==
  /\ FreeSlots(fetcher) = {}
  /\ \E i \in SlotIds:
       /\ IsNext(i) /\ fetcher.tasks[i].job = "poll" /\ fetcher.tasks[i].live
       /\ fetcher.tasks[i].reply.code # None

(* A code approved while it is shown signs in, whichever requests fail on  *)
(* the way: polls go on, and ask again -- unless a second press of the     *)
(* button has its code, which comes later, replace the one on screen, or   *)
(* replies slower than polls keep the pool full: nothing holds the polls   *)
(* back (main.c:1512-1519), and while one takes each slot that another     *)
(* gives up, no approval ever finds a free one.                            *)
Approved == screen = "quick" /\ secret \in backend.approved
ApprovalSignsIn == []<>Starved \/ (Approved ~> ~Approved)

(* "Only a 401/403 triggers any of this" and "two consecutive failures     *)
(* stop the retry" (docs/jellyfin.md:192-197): a stored password the       *)
(* server still takes is not forgotten unless the user signs out.          *)
PasswordIsKept ==
  [][session.password = "right" /\ session'.password = "none"
       => Event \/ session'.token # NoToken]_vars
=============================================================================
