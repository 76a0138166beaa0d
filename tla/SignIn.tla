-------------------------------- MODULE SignIn --------------------------------
(* Signing in with an identity provider, and proving it again while playing:    *)
(* the client's SignInCoordinator with its background tasks, the session's       *)
(* request and answer, and the server's AuthService, which verifies a token      *)
(* against keys that a worker thread fetches.                                    *)
EXTENDS Naturals, Sequences, FiniteSets

CONSTANTS
  None,
  PromptAfter,   \* kPromptAfterTransientFailures
  Prompts,       \* does the player answer the prompt while playing?
  MaxNonce,      \* bound: the join's challenge and the requests after it
  MaxKeys,       \* bound: signing keys the provider uses in turn
  MaxFaults      \* bound: outages, and refusals of the account

VARIABLES
  idp,          \* the provider: up, the key it signs with, does it know the account
  faults,
  \* AuthService
  discovered,   \* jwks_uri_
  keys,         \* the key loaded, 0 for none
  fetching,     \* None, or what pump() is fetching
  requested,    \* refresh_requested_
  limited,      \* is the refresh rate limit in force?
  \* the server's session
  stage,        \* joining, playing, out
  nonce,        \* of the last challenge or request
  pending,      \* is an answer outstanding?
  ticket,       \* the verification under way, or None
  lastVerdict,  \* history: why the last verification failed
  \* the connection
  s2c, c2s,
  \* ClientSession and SignInCoordinator
  open,         \* is the token ticket polled?
  phase, activeNonce, token, cancelled, needsTrust, reauth, silent, misses, retry,
  task,         \* SignInTask, or None
  stored,       \* the SessionStore's refresh token
  trusted       \* its trust list

server == <<stage, nonce, pending, ticket, lastVerdict>>
service == <<discovered, keys, fetching, requested, limited>>
coordinator == <<phase, activeNonce, token, cancelled, needsTrust, reauth, silent, misses, retry,
                 task, stored, trusted>>
vars == <<idp, faults, service, server, s2c, c2s, open, coordinator>>

Token == [nonce : 0..MaxNonce, key : 1..MaxKeys, issued : 1..MaxNonce]
Pcs == {"new", "unknown", "asked", "waiting", "fetched"}
Tickets == [token : Token, pc : Pcs, empty : BOOLEAN]
Tasks == [kind : {"silent", "browser", "password"}, nonce : 0..MaxNonce,
          result : {None, "token", "retryable", "refused"}, token : Token \union {None}]

\* What is absent is none of what may be there.
SignInConstants ==
  /\ MaxNonce \in Nat \ {0} /\ MaxKeys \in Nat \ {0} /\ MaxFaults \in Nat /\ PromptAfter \in Nat
  /\ None \notin Token \union Tickets \union Tasks \union {"token", "nonce", "late"}

TypeOK ==
  /\ idp \in [up : BOOLEAN, key : 1..MaxKeys, knows : BOOLEAN] /\ faults \in 0..MaxFaults
  /\ discovered \in BOOLEAN /\ keys \in 0..MaxKeys /\ requested \in BOOLEAN /\ limited \in BOOLEAN
  /\ fetching \in {None, "discovery", "keys"}
  /\ stage \in {"joining", "playing", "out"} /\ nonce \in 1..MaxNonce /\ pending \in BOOLEAN
  /\ ticket \in Tickets \union {None}
  /\ lastVerdict \in {None, "ok", "nonce", "key", "late"}
  /\ \A i \in DOMAIN s2c : s2c[i] \in 1..MaxNonce
  /\ \A i \in DOMAIN c2s : c2s[i] \in Token
  /\ open \in BOOLEAN /\ phase \in {"idle", "choosing", "working", "finished"}
  /\ activeNonce \in 0..MaxNonce /\ token \in Token \union {None}
  /\ cancelled \in BOOLEAN /\ needsTrust \in BOOLEAN /\ reauth \in BOOLEAN /\ silent \in BOOLEAN
  /\ misses \in 0..PromptAfter /\ retry \in BOOLEAN
  /\ task \in Tasks \union {None}
  /\ stored \in BOOLEAN /\ trusted \in BOOLEAN

Init ==
  /\ idp = [up |-> TRUE, key |-> 1, knows |-> TRUE] /\ faults = 0
  /\ discovered = FALSE /\ keys = 0 /\ fetching = None /\ requested = FALSE /\ limited = FALSE
  /\ stage = "joining" /\ nonce = 1 /\ pending = TRUE /\ ticket = None /\ lastVerdict = None
  /\ s2c = <<1>> /\ c2s = <<>>
  /\ open = FALSE /\ phase = "idle" /\ activeNonce = 0 /\ token = None /\ cancelled = FALSE
  /\ needsTrust = FALSE /\ reauth = FALSE /\ silent = FALSE /\ misses = 0 /\ retry = FALSE
  /\ task = None /\ trusted \in BOOLEAN /\ stored \in BOOLEAN /\ (stored => trusted)

-----------------------------------------------------------------------------
(* The identity provider *)

Provider ==
  /\ \/ /\ faults < MaxFaults /\ faults' = faults + 1
        /\ \/ idp.up /\ idp' = [idp EXCEPT !.up = FALSE]
           \/ idp.knows /\ idp' = [idp EXCEPT !.knows = FALSE]
     \/ ~idp.up /\ idp' = [idp EXCEPT !.up = TRUE] /\ UNCHANGED faults
     \/ idp.key < MaxKeys /\ idp' = [idp EXCEPT !.key = @ + 1] /\ UNCHANGED faults
  /\ UNCHANGED <<service, server, s2c, c2s, open, coordinator>>

-----------------------------------------------------------------------------
(* AuthService: the worker *)

\* pump() begins the work that is due.
FetchStart ==
  /\ fetching = None
  /\ \/ ~discovered /\ fetching' = "discovery" /\ UNCHANGED limited
     \/ discovered /\ (keys = 0 \/ requested) /\ fetching' = "keys" /\ limited' = TRUE
  /\ UNCHANGED <<idp, faults, discovered, keys, requested, server, s2c, c2s, open, coordinator>>

\* pump() ends; a key fetch bumps the generation, also when it failed.
FetchEnd ==
  /\ fetching # None /\ fetching' = None
  /\ \/ /\ fetching = "discovery" /\ discovered' = idp.up
        /\ UNCHANGED <<keys, requested, ticket>>
     \/ /\ fetching = "keys" /\ requested' = FALSE
        /\ keys' = IF idp.up THEN idp.key ELSE keys
        /\ ticket' = IF ticket # None /\ ticket.pc = "waiting" THEN [ticket EXCEPT !.pc = "fetched"]
                     ELSE ticket
        /\ UNCHANGED discovered
  /\ UNCHANGED <<idp, faults, limited, stage, nonce, pending, lastVerdict, s2c, c2s, open,
                 coordinator>>

LimitEnds ==
  /\ limited /\ limited' = FALSE
  /\ UNCHANGED <<idp, faults, discovered, keys, fetching, requested, server, s2c, c2s, open,
                 coordinator>>

-----------------------------------------------------------------------------
(* The server: what a verdict does, and how Pending::poll finds it *)

\* Accepted: into the game, or finish_reauth; refused: kicked.
Verdict(v) ==
  /\ ticket' = None /\ lastVerdict' = v
  /\ IF v = "ok" THEN stage' = "playing" /\ pending' = FALSE
     ELSE stage' = "out" /\ UNCHANGED pending
  /\ UNCHANGED nonce

\* verify_id_token with the key known, then finish_reauth's test of the time of issue.
Judged ==
  CASE ticket.token.nonce \notin {0, nonce} -> "nonce"
    [] ticket.token.issued < nonce -> "late"
    [] OTHER -> "ok"

\* Who was kicked is gone, with what was verified for it.
Connected == stage # "out"

Check == \* Pending::poll's first look
  /\ Connected /\ ticket # None /\ ticket.pc = "new"
  /\ IF ticket.token.key = keys THEN Verdict(Judged)
     ELSE /\ ticket' = [ticket EXCEPT !.pc = "unknown", !.empty = keys = 0]
          /\ UNCHANGED <<stage, nonce, pending, lastVerdict>>
  /\ UNCHANGED <<idp, faults, service, s2c, c2s, open, coordinator>>

\* request_refresh, unless there was no key at all.
Ask ==
  /\ Connected /\ ticket # None /\ ticket.pc = "unknown"
  /\ IF ~ticket.empty /\ ~(fetching # None \/ requested) /\ limited
     THEN Verdict("key") /\ UNCHANGED requested
     ELSE /\ ticket' = [ticket EXCEPT !.pc = "asked"]
          /\ requested' = (requested \/ (~ticket.empty /\ fetching = None))
          /\ UNCHANGED <<stage, nonce, pending, lastVerdict>>
  /\ UNCHANGED <<idp, faults, discovered, keys, fetching, limited, s2c, c2s, open, coordinator>>

\* generation_at_wait_ is read after the lock was let go.
Wait ==
  /\ Connected /\ ticket # None /\ ticket.pc = "asked"
  /\ ticket' = [ticket EXCEPT !.pc = "waiting"]
  /\ UNCHANGED <<idp, faults, service, stage, nonce, pending, lastVerdict, s2c, c2s, open,
                 coordinator>>

\* A fetch has ended, or the wait has lasted too long.
Recheck ==
  /\ Connected /\ ticket # None
  /\ \/ ticket.pc = "fetched" /\ Verdict(IF ticket.token.key = keys THEN Judged ELSE "key")
     \/ ticket.pc = "waiting" /\ Verdict("key")
  /\ UNCHANGED <<idp, faults, service, s2c, c2s, open, coordinator>>

\* system_reauth: the interval is over, and no request is outstanding.
RequestDue_again == stage = "playing"

RequestDue == stage = "playing" /\ ~pending

Request ==
  /\ RequestDue /\ nonce < MaxNonce
  /\ nonce' = nonce + 1 /\ pending' = TRUE /\ ticket' = None
  /\ s2c' = Append(s2c, nonce + 1)
  /\ UNCHANGED <<idp, faults, service, stage, lastVerdict, c2s, open, coordinator>>

\* The grace, or the time for the join, is over; a ticket was polled before, to where it waits.
Deadline ==
  /\ Connected /\ pending /\ stage' = "out"
  /\ ticket # None => ticket.pc \in {"waiting", "fetched"}
  /\ UNCHANGED <<idp, faults, service, nonce, pending, ticket, lastVerdict, s2c, c2s, open,
                 coordinator>>

\* C2S_Auth, C2S_Reauth: only the first answer to an outstanding request counts.
ReceiveAnswer ==
  /\ Connected /\ c2s # <<>> /\ c2s' = Tail(c2s)
  /\ ticket' = IF pending /\ ticket = None
               THEN [token |-> Head(c2s), pc |-> "new", empty |-> FALSE] ELSE ticket
  /\ UNCHANGED <<idp, faults, service, stage, nonce, pending, lastVerdict, s2c, open, coordinator>>

-----------------------------------------------------------------------------
(* The client *)

\* begin_silent_locked, for a coordinator in phase ph without a task.
BeginSilent(ph) ==
  IF task = None /\ stored
  THEN /\ silent' = TRUE /\ phase' = "working"
       /\ task' = [kind |-> "silent", nonce |-> 0, result |-> None, token |-> None]
  ELSE phase' = ph /\ UNCHANGED <<silent, task>>

\* provider() at the challenge, reauth_provider() at each request.
ReceiveRequest ==
  /\ Connected /\ s2c # <<>> /\ s2c' = Tail(s2c)
  /\ activeNonce' = Head(s2c) /\ open' = TRUE /\ token' = None /\ cancelled' = FALSE
  /\ \/ /\ Head(s2c) = 1 /\ reauth' = FALSE /\ needsTrust' = ~trusted
        /\ IF trusted THEN BeginSilent("choosing")
           ELSE phase' = "choosing" /\ UNCHANGED <<silent, task>>
        /\ UNCHANGED <<retry, misses>>
     \/ /\ Head(s2c) # 1 /\ reauth' = TRUE /\ retry' = FALSE /\ misses' = 0
        /\ BeginSilent("choosing") /\ UNCHANGED needsTrust
  /\ UNCHANGED <<idp, faults, service, server, c2s, stored, trusted>>

Trust ==
  /\ Connected /\ needsTrust
  /\ trusted' = TRUE /\ needsTrust' = FALSE /\ BeginSilent(phase)
  /\ UNCHANGED <<idp, faults, service, server, s2c, c2s, open, activeNonce, token, cancelled,
                 reauth, misses, retry, stored>>

\* start_browser, start_password.
MayStart == phase = "choosing" /\ task = None /\ ~needsTrust

Start ==
  /\ Connected /\ MayStart /\ (reauth => Prompts)
  /\ phase' = "working"
  /\ \E kind \in {"browser", "password"} :
       task' = [kind |-> kind, nonce |-> IF kind = "browser" THEN activeNonce ELSE 0,
                result |-> None, token |-> None]
  /\ UNCHANGED <<idp, faults, service, server, s2c, c2s, open, activeNonce, token, cancelled,
                 needsTrust, reauth, silent, misses, retry, stored, trusted>>

\* The sign-in screen's Cancel; while playing it only closes the panel.
Cancel ==
  /\ Connected /\ open /\ ~reauth /\ ~cancelled
  /\ cancelled' = TRUE /\ task' = None /\ phase' = "finished"
  /\ UNCHANGED <<idp, faults, service, server, s2c, c2s, open, activeNonce, token, needsTrust,
                 reauth, silent, misses, retry, stored, trusted>>

\* A task's thread gets an answer from the provider; the player may give up a browser.
TaskEnds ==
  /\ task # None /\ task.result = None
  /\ \/ /\ idp.up /\ idp.knows
        /\ task' = [task EXCEPT !.result = "token",
                      !.token = [nonce |-> task.nonce, key |-> idp.key, issued |-> nonce]]
     \/ ~idp.up /\ task' = [task EXCEPT !.result = "retryable"]
     \/ /\ idp.up /\ (idp.knows => task.kind # "silent")
        /\ task' = [task EXCEPT !.result = "refused"]
  /\ UNCHANGED <<idp, faults, service, server, s2c, c2s, open, phase, activeNonce, token, cancelled,
                 needsTrust, reauth, silent, misses, retry, stored, trusted>>

\* update_locked: what a finished task brought.
Saved == /\ token' = task.token /\ phase' = "finished" /\ reauth' = FALSE
         /\ misses' = 0 /\ retry' = FALSE /\ stored' = TRUE

Quiet_stuck == /\ phase' = phase /\ retry' = reauth
               /\ misses' = IF reauth /\ misses < PromptAfter THEN misses + 1 ELSE misses
               /\ UNCHANGED <<token, reauth, stored>>

Quiet == /\ phase' = "choosing" /\ retry' = (retry \/ reauth)
         /\ misses' = IF reauth /\ misses < PromptAfter THEN misses + 1 ELSE misses
         /\ UNCHANGED <<token, reauth, stored>>
Failed == /\ phase' = "choosing" /\ retry' = FALSE /\ misses' = 0
          /\ stored' = (stored /\ ~silent) /\ UNCHANGED <<token, reauth>>
Update ==
  /\ Connected /\ task # None /\ task.result # None
  /\ task' = None /\ silent' = FALSE
  /\ \/ task.result = "token" /\ Saved
     \/ task.result = "retryable" /\ silent /\ Quiet
     \/ task.result # "token" /\ ~(task.result = "retryable" /\ silent) /\ Failed
  /\ UNCHANGED <<idp, faults, service, server, s2c, c2s, open, activeNonce, cancelled, needsTrust,
                 trusted>>

\* update_locked: the time for another silent try has come.
Retry ==
  /\ Connected /\ task = None /\ retry /\ reauth /\ ~cancelled
  /\ retry' = FALSE /\ BeginSilent(phase)
  /\ UNCHANGED <<idp, faults, service, server, s2c, c2s, open, activeNonce, token, cancelled,
                 needsTrust, reauth, misses, stored, trusted>>

\* poll_ticket, and what the session does with it; a cancelled join ends.
PollTicket ==
  /\ Connected /\ open
  /\ \/ cancelled /\ open' = FALSE /\ stage' = "out" /\ UNCHANGED <<c2s, token>>
     \/ ~cancelled /\ token # None /\ open' = FALSE /\ c2s' = Append(c2s, token) /\ token' = None
        /\ UNCHANGED stage
  /\ UNCHANGED <<idp, faults, service, nonce, pending, ticket, lastVerdict, s2c, phase, activeNonce,
                 cancelled, needsTrust, reauth, silent, misses, retry, task, stored, trusted>>

Worker == FetchStart \/ FetchEnd
Poll == Check \/ Ask \/ Wait \/ Recheck
Next ==
  \/ Provider \/ Worker \/ LimitEnds \/ Poll \/ Request \/ Deadline \/ ReceiveAnswer
  \/ ReceiveRequest \/ Trust \/ Start \/ Cancel \/ TaskEnds \/ Update \/ Retry \/ PollTicket

Spec == Init /\ [][Next]_vars

-----------------------------------------------------------------------------
\* Nothing is sent to the provider before the player trusts the server with it (auth.md §6).
NothingBeforeTrust == task # None => trusted

\* reauth_prompt_active.
PromptActive ==
  reauth /\ ~cancelled /\ phase # "finished" /\ ~(silent /\ task # None) /\
  ~(retry /\ misses < PromptAfter)

\* An answer fits the request it is verified for: no sign-in of an earlier challenge or
\* request, no browser tab left over, is taken for it, and none makes a verification fail.
AnswerFits ==
  /\ ticket # None => ticket.token.nonce \in {0, nonce} /\ ticket.token.issued = nonce
  /\ lastVerdict \notin {"nonce", "late"}

\* A request is never stuck in silence: until the answer goes out, work is going on, another
\* try is due, or the player is asked and can start a sign-in.
NeverStuck ==
  open /\ Connected /\ ~cancelled =>
    \/ task # None \/ token # None
    \/ retry /\ reauth
    \/ needsTrust /\ ~reauth
    \/ MayStart /\ (reauth => PromptActive)

\* "the client keeps its refresh token and retries every few seconds" (auth.md §5).  False:
\* a browser sign-in that fails ends the silent retries as well.
KeepsRetrying ==
  open /\ Connected /\ reauth /\ stored => task # None \/ token # None \/ retry

\* "a fetch is already coming; wait for it" (service.cpp): a token whose key the server has
\* is not refused for its key.  False: the fetch may end before the wait begins.
KnownKeyNotRefused ==
  [][lastVerdict' = "key" /\ ticket' = None /\ ticket # None => ticket.token.key # keys]_vars
=============================================================================
