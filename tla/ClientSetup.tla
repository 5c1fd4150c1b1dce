---------------------------- MODULE ClientSetup -----------------------------
(***************************************************************************)
(* The clients of an application: conn.New of conn/, and the constructors  *)
(* NewSQS, NewSNS and NewScheduler of client/ with their options and the   *)
(* connectivity validation of client/ping.go against a service (external)  *)
(* that answers, fails or hangs, while the caller may cancel.              *)
(*                                                                         *)
(* Text (region, keys, profile, endpoint) is present or missing, and of a  *)
(* duration only its sign matters: the budget of a validation runs out at  *)
(* some point.                                                             *)
(***************************************************************************)
EXTENDS Integers, Sequences

CONSTANTS MaxUint,           \* the largest uint
          RetryCounts,       \* arguments of WithRetryCount
          PingTimeouts,      \* arguments of WithPingTimeout
          PingRetryLimits,   \* arguments of WithPingRetryLimit
          Plans,             \* sequences of the clients an application makes
          MaxConnOptions,    \* bound on the options given to conn.New
          MaxClientOptions   \* bound on the options given to a constructor

Uint == 0 .. MaxUint

\* The clients of the library, and an SQSClient of the application's own.
Services == {"sqs", "sns", "scheduler", "own"}

ASSUME ClientAssumption ==
  /\ MaxUint \in Nat
  /\ RetryCounts \subseteq Uint
  /\ PingTimeouts \subseteq Int
  /\ PingRetryLimits \subseteq Uint
  /\ Plans \subseteq Seq(Services)
  /\ MaxConnOptions \in Nat
  /\ MaxClientOptions \in Nat

VARIABLES stage,      \* where the application is
          conn,       \* the options of conn.New
          cfg,        \* what the aws.Config resolves
          plan,       \* the clients still to be made
          ping,       \* the options of a constructor
          applied,    \* options applied in this call
          attempt,    \* the loop variable of validate
          expired,    \* the budget of the validation has run out
          cancelled,  \* the caller's ctx is canceled
          clients     \* the clients made so far

clientVars == <<stage, conn, cfg, plan, ping, applied, attempt, expired, cancelled, clients>>

defaultRetryCount == 10
defaultPingTimeout == 3
defaultPingRetryLimit == 2

\* newOptions of conn/options.go.
ConnOptions ==
  [region |-> FALSE, accessKey |-> FALSE, secretKey |-> FALSE, sessionToken |-> FALSE,
   profile |-> FALSE, endpoint |-> FALSE, retryCount |-> defaultRetryCount]

\* newOptions of client/options.go.
PingOptions ==
  [timeout |-> defaultPingTimeout, retryLimit |-> defaultPingRetryLimit, check |-> TRUE]

NoConfig == [credentials |-> "none", endpoint |-> FALSE, maxAttempts |-> 0]

ClientInit ==
  /\ stage = "conn"
  /\ conn = ConnOptions
  /\ cfg = NoConfig
  /\ plan \in Plans
  /\ ping = PingOptions
  /\ applied = 0
  /\ attempt = 0
  /\ expired = FALSE
  /\ cancelled = FALSE
  /\ clients = {}

-----------------------------------------------------------------------------
(* conn.New.                                                                *)

ConnOption(new) ==
  /\ stage = "conn"
  /\ applied < MaxConnOptions
  /\ applied' = applied + 1
  /\ conn' = new
  /\ UNCHANGED <<stage, cfg, plan, ping, attempt, expired, cancelled, clients>>

WithRegion(text) == ConnOption([conn EXCEPT !.region = text])

WithAccessKey(key, secret) == ConnOption([conn EXCEPT !.accessKey = key, !.secretKey = secret])

WithSessionToken(text) == ConnOption([conn EXCEPT !.sessionToken = text])

WithProfile(text) == ConnOption([conn EXCEPT !.profile = text])

WithEndpoint(text) == ConnOption([conn EXCEPT !.endpoint = text])

\* int(n): the upper half of the uints becomes negative.
WithRetryCount(n) ==
  ConnOption([conn EXCEPT !.retryCount = IF 2 * n > MaxUint THEN n - (MaxUint + 1) ELSE n])

\* buildLoadOptions: static credentials need both keys and come before a
\* profile; a session token goes with static credentials only.
LoadOptions ==
  LET static == conn.accessKey /\ conn.secretKey
  IN  [credentials |-> CASE static /\ conn.sessionToken -> "session"
                         [] static -> "static"
                         [] conn.profile -> "profile"
                         [] OTHER -> "default chain",
       endpoint |-> conn.endpoint,
       maxAttempts |-> conn.retryCount]

\* New ends: without a region, or when the SDK cannot load the configuration,
\* with an error.
ConnNew ==
  /\ stage = "conn"
  /\ \/ stage' = "failed" /\ UNCHANGED cfg
     \/ conn.region /\ stage' = "next" /\ cfg' = LoadOptions
  /\ conn' = ConnOptions
  /\ applied' = 0
  /\ UNCHANGED <<plan, ping, attempt, expired, cancelled, clients>>

Connect ==
  \/ \E b \in BOOLEAN : \/ WithRegion(b) \/ WithSessionToken(b) \/ WithProfile(b) \/ WithEndpoint(b)
                        \/ \E c \in BOOLEAN : WithAccessKey(b, c)
  \/ \E n \in RetryCounts : WithRetryCount(n)
  \/ ConnNew

-----------------------------------------------------------------------------
(* A constructor.                                                           *)

\* The application goes on to its next client, or hands over its own.
Begin ==
  /\ stage = "next"
  /\ plan # << >>
  /\ IF Head(plan) = "own"
       THEN clients' = clients \cup {"own"} /\ plan' = Tail(plan) /\ UNCHANGED stage
       ELSE stage' = "options" /\ UNCHANGED <<clients, plan>>
  /\ UNCHANGED <<conn, cfg, ping, applied, attempt, expired, cancelled>>

\* buildOptions: the next option; an invalid one ends the construction.
PingOption(ok, new) ==
  /\ stage = "options"
  /\ applied < MaxClientOptions
  /\ applied' = applied + 1
  /\ IF ok THEN ping' = new /\ UNCHANGED stage ELSE stage' = "failed" /\ UNCHANGED ping
  /\ UNCHANGED <<conn, cfg, plan, attempt, expired, cancelled, clients>>

WithPingTimeout(d) == PingOption(d > 0, [ping EXCEPT !.timeout = d])

WithPingRetryLimit(n) == PingOption(TRUE, [ping EXCEPT !.retryLimit = n])

WithoutConnectivityCheck == PingOption(TRUE, [ping EXCEPT !.check = FALSE])

\* The constructor returns its client; its locals are gone.
Return ==
  /\ clients' = clients \cup {Head(plan)}
  /\ plan' = Tail(plan)
  /\ stage' = "next"
  /\ ping' = PingOptions
  /\ applied' = 0
  /\ attempt' = 0
  /\ expired' = FALSE
  /\ UNCHANGED <<conn, cfg, cancelled>>

\* newSQS, newSNS and newScheduler after their options: no check, no call.
Unchecked == stage = "options" /\ ~ping.check /\ Return

\* validate starts its budget, which no cancellation of the caller cuts short.
Validate ==
  /\ stage = "options"
  /\ ping.check
  /\ stage' = "attempt"
  /\ UNCHANGED <<conn, cfg, plan, ping, applied, attempt, expired, cancelled, clients>>

\* The head of the loop: the attempts are used up or ctx is canceled, and the
\* construction fails, or do is called.
Attempt ==
  /\ stage = "attempt"
  /\ stage' = IF attempt <= ping.retryLimit /\ ~cancelled THEN "calling" ELSE "failed"
  /\ UNCHANGED <<conn, cfg, plan, ping, applied, attempt, expired, cancelled, clients>>

\* The service answered within the budget.
AttemptSucceeds == stage = "calling" /\ ~expired /\ Return

\* Mutant: an attempt the budget cut short is tried again and not counted.
AttemptFailsUncounted ==
  /\ stage = "calling"
  /\ attempt' = IF expired THEN attempt ELSE (attempt + 1) % (MaxUint + 1)
  /\ stage' = "attempt"
  /\ UNCHANGED <<conn, cfg, plan, ping, applied, expired, cancelled, clients>>

\* do failed, at once when the budget has run out; attempt++ on a uint.
AttemptFails ==
  /\ stage = "calling"
  /\ attempt' = (attempt + 1) % (MaxUint + 1)
  /\ stage' = "attempt"
  /\ UNCHANGED <<conn, cfg, plan, ping, applied, expired, cancelled, clients>>

Construct ==
  \/ Begin
  \/ \E d \in PingTimeouts : WithPingTimeout(d)
  \/ \E n \in PingRetryLimits : WithPingRetryLimit(n)
  \/ WithoutConnectivityCheck
  \/ Unchecked
  \/ Validate
  \/ Attempt

\* The budget of the validation runs out.
BudgetExpires ==
  /\ stage \in {"attempt", "calling"}
  /\ ~expired
  /\ expired' = TRUE
  /\ UNCHANGED <<stage, conn, cfg, plan, ping, applied, attempt, cancelled, clients>>

\* The caller cancels ctx.
CancelSetup ==
  /\ stage \in {"options", "attempt", "calling"}
  /\ ~cancelled
  /\ cancelled' = TRUE
  /\ UNCHANGED <<stage, conn, cfg, plan, ping, applied, attempt, expired, clients>>

ClientNext ==
  Connect \/ Construct \/ AttemptSucceeds \/ AttemptFails \/ BudgetExpires \/ CancelSetup

\* The application's goroutine runs and the timer of the budget fires.  A
\* request may hang, but not longer than the budget.
ClientFairness ==
  /\ WF_clientVars(Connect)
  /\ WF_clientVars(Construct)
  /\ WF_clientVars(BudgetExpires)
  /\ WF_clientVars(expired /\ AttemptFails)

-----------------------------------------------------------------------------

\* "bounding the total duration by cfg.timeout": every constructor returns, the
\* service hanging or failing and the caller canceling or not, within its
\* budget and the attempts that then fail at once.  The one exception is a retry
\* limit of the largest uint, which attempt <= retryLimit never exceeds.
SetupEnds ==
  (stage \in {"attempt", "calling"} /\ ping.retryLimit < MaxUint) ~>
    (stage \notin {"attempt", "calling"})

=============================================================================
