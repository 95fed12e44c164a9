---------------------------- MODULE RateLimiter -----------------------------
(***************************************************************************)
(* The fixed-window rate limiter: policy.RateLimitWithKeyer                *)
(* (internal/core/policy/ratelimit.go) over ratelimit.RedisLimiter         *)
(* (internal/core/ratelimit/ratelimit.go).                                 *)
(*                                                                         *)
(* Each request runs a script on Redis that increments the counter of its  *)
(* key and, on the first increment, sets the key to expire after the       *)
(* window. The key holds the route pattern, without the method, and the    *)
(* identity of the client: two rules may share a counter. Both are trimmed *)
(* and cut to a length first, so two texts may give one key: a text is a   *)
(* record of what is kept of it and what is lost. Time is in the           *)
(* milliseconds of Redis; windows are given in units of which Milli make a *)
(* millisecond.                                                            *)
(***************************************************************************)
EXTENDS Naturals, Sequences

CONSTANTS
  Rules,      \* one per rate-limited route
  Pattern,    \* the route pattern of each rule, a text
  Scope,      \* Rule.Scope
  Keyer,      \* the scopes Rule.Keyer tries in turn, none when there is no Keyer
  Limit, Window,
  Clients,
  Cred,       \* what each client is known by under each scope, a text
  Milli,      \* units of Window per millisecond
  Second,     \* milliseconds per second
  FailOpen,   \* Config.FailOpen
  MaxTime,    \* bound on the clock
  MaxCount    \* bound on the counter of a key

Scopes == {"user", "tenant", "token", "ip"}

ASSUME IdentityAssumption ==
  /\ \A r \in Rules : DOMAIN Pattern[r] = {"kept", "lost"}
  /\ Scope \in [Rules -> Scopes \cup {"anon", "auto", ""}]
  /\ \A c \in Clients : DOMAIN Cred[c] = Scopes
  /\ \A r \in Rules : \A i \in 1..Len(Keyer[r]) : Keyer[r][i] \in Scopes

ASSUME RateLimiterAssumption ==
  /\ Rules # {}
  /\ Limit \in [Rules -> Nat \ {0}]
  /\ Window \in [Rules -> Nat \ {0}]
  /\ Milli \in Nat \ {0} /\ Second \in Nat \ {0}
  /\ FailOpen \in BOOLEAN
  /\ MaxTime \in Nat /\ MaxCount \in Nat

VARIABLES
  now,
  count,     \* the counter of each key in Redis; 0 when there is no key
  expiry,    \* the time after which the key is gone
  pc, rule,  \* each client: position, and the rule of its route
  reply,     \* what the script returned
  answer,    \* the response: the handler's, 429 or 503
  retryAt,   \* when a client that got 429 may try again
  (* History, per identity on a route. *)
  log,       \* the times at which the script allowed a request of each rule
  opened,    \* when the window began
  start, before,  \* the length of log then, and when the last one began
  hits       \* requests in the window

redisVars == <<count, expiry>>
history == <<log, opened, start, before, hits>>
vars == <<now, redisVars, pc, rule, reply, answer, retryAt, history>>

-----------------------------------------------------------------------------
(* Keys.                                                                   *)

(* sanitizeIdentifier trims an identifier, writes blanks as underscores    *)
(* and cuts it at 128 bytes; the kept part of a blank one is "".           *)
sanitizeIdentifier(id) == [kept |-> id.kept, lost |-> ""]

(* The same of a route pattern, cut at 240 bytes.                          *)
normalizeRoute(p) == IF p.kept = "" THEN "unknown" ELSE p.kept

Anon == <<"anon", [kept |-> "anonymous", lost |-> ""]>>

normalizeScope(s) == IF s \in {"", "auto"} THEN "anon" ELSE s

normalizeKey(who) ==
  IF sanitizeIdentifier(who[2]).kept = "" THEN Anon
  ELSE <<normalizeScope(who[1]), sanitizeIdentifier(who[2])>>

(* KeyByUser, KeyByTokenHash, KeyByIP and KeyByTenant.                     *)
KeyBy(c, s) == IF Cred[c][s].kept # "" THEN <<s, Cred[c][s]>> ELSE Anon

(* The first of the scopes under which the client is known.                *)
KeyByFirst(c, scopes) ==
  LET known == SelectSeq(scopes, LAMBDA s : KeyBy(c, s) # Anon)
  IN  IF known = <<>> THEN Anon ELSE normalizeKey(KeyBy(c, known[1]))

(* A scope that the switch does not name, as "tenant", is anonymous.       *)
ByScope(c, s) ==
  CASE s \in {"auto", "user", ""} -> KeyByFirst(c, <<"user", "token">>)
    [] s \in {"ip", "token"} -> KeyByFirst(c, <<s>>)
    [] OTHER -> Anon

ResolveScopeAndIdentifier(c, r) ==
  LET keyed == KeyByFirst(c, Keyer[r])
  IN  IF keyed[1] # "anon" THEN keyed ELSE ByScope(c, Scope[r])

(* Mutant: the key leaves the scope out. *)
BuildKeyNoScope(route, who) ==
  LET id == sanitizeIdentifier(who[2]).kept
  IN  <<normalizeRoute(route), IF id = "" THEN "anonymous" ELSE id>>

(* BuildKey sanitizes once more. The parts of the key are kept apart: a    *)
(* pattern does not contain a scope between colons.                        *)
BuildKey(route, who) ==
  LET id == sanitizeIdentifier(who[2]).kept
  IN  <<normalizeRoute(route), normalizeScope(who[1]), IF id = "" THEN "anonymous" ELSE id>>

Key == [c \in Clients |-> [r \in Rules |->
  BuildKey(Pattern[r], ResolveScopeAndIdentifier(c, r))]]

Keys == {Key[c][r] : c \in Clients, r \in Rules}

(* Whom the limiter takes the client for, where, as far as it can tell.    *)
Ident == [c \in Clients |-> [r \in Rules |->
  LET who == ResolveScopeAndIdentifier(c, r)
  IN  <<normalizeRoute(Pattern[r]), who[1], who[2].kept>>]]

Idents == {Ident[c][r] : c \in Clients, r \in Rules}

-----------------------------------------------------------------------------
(* The script.                                                             *)

WindowMS(r) == Window[r] \div Milli

Gone(k) == count[k] = 0 \/ now > expiry[k]
Current(k) == IF Gone(k) THEN 1 ELSE count[k] + 1

(* PEXPIRE on the first increment only.                                    *)
NewExpiry(k, r) == IF Gone(k) THEN now + WindowMS(r) ELSE expiry[k]

(* Mutant: one request too many. *)
WithinOneMore(n, r) == n <= Limit[r] + 1

Within(n, r) == n <= Limit[r]

NoReply == [allowed |-> FALSE, ttl |-> 0, until |-> 0, own |-> 0]

(* A first increment opens a window; an allowed request is logged.         *)
Record(i, r, first, current) ==
  /\ opened' = [opened EXCEPT ![i] = IF first THEN now ELSE @]
  /\ start' = [start EXCEPT ![i] =
       IF first THEN [q \in Rules |-> Len(log[i][q])] ELSE @]
  /\ before' = [before EXCEPT ![i] = IF first THEN start[i] ELSE @]
  /\ hits' = [hits EXCEPT ![i] = IF first THEN 1 ELSE @ + 1]
  /\ log' = IF Within(current, r)
              THEN [log EXCEPT ![i][r] = Append(@, now)]
              ELSE log

(* One run of the script. An expiry of zero milliseconds deletes the key.  *)
Script(c, r) ==
  LET k == Key[c][r]
  IN  /\ Current(k) <= MaxCount
      /\ expiry' = [expiry EXCEPT ![k] = NewExpiry(k, r)]
      /\ count' = [count EXCEPT ![k] =
           IF Gone(k) /\ WindowMS(r) = 0 THEN 0 ELSE Current(k)]
      /\ Record(Ident[c][r], r, Gone(k), Current(k))
      /\ reply' = [reply EXCEPT ![c] =
           [allowed |-> Within(Current(k), r),
            ttl |-> expiry'[k] - now,
            until |-> expiry'[k],
            own |-> hits'[Ident[c][r]]]]
      /\ pc' = [pc EXCEPT ![c] = "ran"]
      /\ UNCHANGED now

-----------------------------------------------------------------------------
(* RateLimitWithKeyer: one request.                                        *)

Free(c) == pc[c] \in {"idle", "answered"}

Allow(c, r) ==
  /\ Free(c)
  /\ Script(c, r)
  /\ rule' = [rule EXCEPT ![c] = r]
  /\ answer' = [answer EXCEPT ![c] = "none"]
  /\ retryAt' = [retryAt EXCEPT ![c] = 0]

(* The client of Redis sends the command again when the reply is lost.     *)
Resend(c) ==
  /\ pc[c] = "ran"
  /\ Script(c, rule[c])
  /\ UNCHANGED <<rule, answer, retryAt>>

Answered(c, a) ==
  /\ pc' = [pc EXCEPT ![c] = "answered"]
  /\ answer' = [answer EXCEPT ![c] = a]
  /\ UNCHANGED <<now, redisVars, history>>

Allowed(c) ==
  /\ pc[c] = "ran"
  /\ reply[c].allowed
  /\ Answered(c, "handler")
  /\ UNCHANGED <<rule, reply, retryAt>>

(* Mutant: the delay is rounded to the second below. *)
RetryFloor(d) == d \div (Milli * Second)

RetryAfterSeconds(d) == (d + Milli * Second - 1) \div (Milli * Second)

RetryAfter(c) ==
  IF reply[c].ttl > 0 THEN reply[c].ttl * Milli ELSE Window[rule[c]]

Blocked(c) ==
  /\ pc[c] = "ran"
  /\ ~reply[c].allowed
  /\ Answered(c, "429")
  /\ retryAt' = [retryAt EXCEPT ![c] =
                   now + Second * RetryAfterSeconds(RetryAfter(c))]
  /\ UNCHANGED <<rule, reply>>

OnError == IF FailOpen THEN "handler" ELSE "503"

(* The reply was lost or is not understood.                                *)
Fails(c) ==
  /\ pc[c] = "ran"
  /\ Answered(c, OnError)
  /\ reply' = [reply EXCEPT ![c] = NoReply]
  /\ UNCHANGED <<rule, retryAt>>

(* Redis could not be asked.                                               *)
Unreachable(c, r) ==
  /\ Free(c)
  /\ Answered(c, OnError)
  /\ rule' = [rule EXCEPT ![c] = r]
  /\ reply' = [reply EXCEPT ![c] = NoReply]
  /\ retryAt' = [retryAt EXCEPT ![c] = 0]

Tick ==
  /\ now < MaxTime
  /\ now' = now + 1
  /\ UNCHANGED <<redisVars, pc, rule, reply, answer, retryAt, history>>

Init ==
  /\ now = 0
  /\ count = [k \in Keys |-> 0]
  /\ expiry = [k \in Keys |-> 0]
  /\ pc = [c \in Clients |-> "idle"]
  /\ rule = [c \in Clients |-> CHOOSE r \in Rules : TRUE]
  /\ reply = [c \in Clients |-> NoReply]
  /\ answer = [c \in Clients |-> "none"]
  /\ retryAt = [c \in Clients |-> 0]
  /\ log = [i \in Idents |-> [r \in Rules |-> <<>>]]
  /\ opened = [i \in Idents |-> 0]
  /\ start = [i \in Idents |-> [r \in Rules |-> 0]]
  /\ before = [i \in Idents |-> [r \in Rules |-> 0]]
  /\ hits = [i \in Idents |-> 0]

Request(c) ==
  \/ \E r \in Rules : Allow(c, r) \/ Unreachable(c, r)
  \/ Resend(c) \/ Allowed(c) \/ Blocked(c) \/ Fails(c)

Next == Tick \/ \E c \in Clients : Request(c)

Spec == Init /\ [][Next]_vars

-----------------------------------------------------------------------------
(* Types. The keys are the identities: BuildKey tells them apart.          *)
TypeOK ==
  /\ now \in Nat
  /\ count \in [Idents -> Nat] /\ expiry \in [Idents -> Nat]
  /\ pc \in [Clients -> {"idle", "ran", "answered"}]
  /\ rule \in [Clients -> Rules]
  /\ reply \in [Clients -> [allowed : BOOLEAN, ttl : Nat, until : Nat, own : Nat]]
  /\ answer \in [Clients -> {"none", "handler", "429", "503"}]
  /\ retryAt \in [Clients -> Nat]
  /\ log \in [Idents -> [Rules -> Seq(Nat)]]
  /\ opened \in [Idents -> Nat]
  /\ start \in [Idents -> [Rules -> Nat]] /\ before \in [Idents -> [Rules -> Nat]]
  /\ hits \in [Idents -> Nat]

(* The counter of a live key is the number of requests in its window, and  *)
(* bounds what was allowed in it.                                          *)
CountsTheWindow ==
  \A k \in Idents :
    /\ opened[k] <= now
    /\ count[k] > 0 => count[k] = hits[k]
    /\ count[k] = 0 /\ hits[k] > 0 => expiry[k] = opened[k]
    /\ \A r \in Rules : /\ before[k][r] <= start[k][r]
                         /\ start[k][r] <= Len(log[k][r])
                         /\ Len(log[k][r]) - start[k][r] <= hits[k]

(* What Limit promises: from the first request on a key until the key      *)
(* expires, the script allows at most Limit requests of a rule, however    *)
(* the requests of the clients interleave and are resent.                  *)
GrantsPerWindow ==
  \A k \in Idents : \A r \in Rules :
    Len(log[k][r]) - start[k][r] <= Limit[r]

(* The rules that share the counter k all have the window of r, of at      *)
(* least a millisecond.                                                    *)
Steady(k, r) ==
  /\ WindowMS(r) > 0
  /\ \A q \in Rules : normalizeRoute(Pattern[q]) = k[1] => WindowMS(q) = WindowMS(r)

(* Where the times in log lie: before the window that began at opened, and *)
(* before the whole of the window that preceded it.                        *)
WindowsInOrder ==
  \A k \in Idents : \A r \in Rules : Steady(k, r) =>
    /\ start[k][r] - before[k][r] <= Limit[r]
    /\ \A i \in 1..start[k][r] : log[k][r][i] < opened[k]
    /\ \A i \in 1..before[k][r] : log[k][r][i] + WindowMS(r) < opened[k]
    /\ \A i \in 1..Len(log[k][r]) : log[k][r][i] <= expiry[k]
    /\ count[k] > 0 => expiry[k] = opened[k] + WindowMS(r)
    /\ count[k] = 0 => Len(log[k][r]) = 0

(* A fixed window lets a burst straddle a boundary, but no more: any       *)
(* WindowMS + 1 consecutive milliseconds see at most twice Limit allowed   *)
(* requests of a rule, provided the rules that share its counter have the  *)
(* same window.                                                            *)
TwiceInAnyInterval ==
  \A k \in Idents : \A r \in Rules : Steady(k, r) =>
    \A i \in 1..Len(log[k][r]) : i + 2 * Limit[r] <= Len(log[k][r]) =>
      log[k][r][i] + WindowMS(r) < log[k][r][i + 2 * Limit[r]]

(* A client is told 429 only after more than Limit requests in that window *)
(* that the limiter takes for its own: the requests of an identity that    *)
(* sanitizeIdentifier leaves different, or of another scope, do not use up *)
(* its budget (two that it leaves equal share one). In fail-closed mode a  *)
(* client reaches the handler only within that budget: errors, lost        *)
(* replies and repeated commands admit nobody.                             *)
DecidedByOwnRequests ==
  \A c \in Clients :
    /\ answer[c] = "429" => reply[c].own > Limit[rule[c]]
    /\ answer[c] = "handler" /\ ~FailOpen => reply[c].own \in 1..Limit[rule[c]]

(* A client that comes back after the whole seconds of Retry-After have    *)
(* passed is not in the window it was blocked in any more: its key is gone *)
(* or counts a later window, although the header is rounded, the reply     *)
(* took time and PTTL may be 0. (In the very millisecond in which they     *)
(* end it may still be there: a key outlives its PTTL by that one.)        *)
RetryCoversWindow ==
  \A c \in Clients : answer[c] = "429" /\ now > retryAt[c] =>
    \/ Gone(Key[c][rule[c]])
    \/ opened[Ident[c][rule[c]]] > reply[c].until

(* A refusal holds for the window that ends at until: the key still counts *)
(* it, or a later one has been opened.                                     *)
Refused(c) == (pc[c] = "ran" /\ ~reply[c].allowed) \/ answer[c] = "429"
RefusedInWindow ==
  \A c \in Clients : Refused(c) =>
    LET k == Ident[c][rule[c]]
    IN  (count[k] > 0 /\ expiry[k] = reply[c].until) \/ opened[k] > reply[c].until

(* The wait is at least what is left of that window.                       *)
WaitIsLong ==
  \A c \in Clients : answer[c] = "429" => retryAt[c] >= reply[c].until

(* What the script returned is true of the window it ran in.               *)
RepliesHonest ==
  \A c \in Clients :
    /\ pc[c] = "ran" =>
         /\ reply[c].own > 0
         /\ reply[c].allowed <=> reply[c].own <= Limit[rule[c]]
         /\ reply[c].until <= now + reply[c].ttl
    /\ pc[c] # "answered" => answer[c] = "none"

IInv == /\ TypeOK /\ CountsTheWindow /\ GrantsPerWindow
        /\ WindowsInOrder /\ TwiceInAnyInterval
        /\ RepliesHonest /\ DecidedByOwnRequests
        /\ RefusedInWindow /\ WaitIsLong
=============================================================================
