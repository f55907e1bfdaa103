------------------------------ MODULE WebAuth ------------------------------
(* Who may change the device through its web page: the administrator's      *)
(* password, the session tokens and the brake on guessing                    *)
(* (main/network/web_server.c, main/settings.c).  One HTTP task serves the   *)
(* requests one after the other, so a request is one step; between them time *)
(* passes and the device may restart, which empties everything but the       *)
(* password.                                                                 *)
EXTENDS Naturals, Sequences

CONSTANTS MaxTokens,    \* AUTH_MAX_TOKENS
          Ttl,          \* AUTH_TTL_US
          MaxFailures,  \* LOGIN_MAX_FAILURES
          Lockout,      \* LOGIN_LOCKOUT_US
          MaxTime,      \* ticks
          MaxWrong,     \* wrong passwords since the last right one
          MaxIssued,    \* tokens that are issued
          MaxRestarts

VARIABLES
  now,       \* esp_timer_get_time; a restart sets it to zero
  hasPw,     \* g_has_device_pw, and the digest in flash
  slots,     \* s_tokens: used, the token, when it expires
  login,     \* s_login_failures, s_login_lockout_until_us
  authHist   \* since the start: tokens in the order of issue, when wrong
             \* passwords were looked at; the tokens and restarts so far

authVars == <<now, hasPw, slots, login, authHist>>

Slots == 1 .. MaxTokens

Empty == [used |-> FALSE, token |-> 0, expires |-> 0]

\* web_server_start after settings_init; a token not yet issued has number 0
Fresh ==
  /\ now' = 0
  /\ slots' = [i \in Slots |-> Empty]
  /\ login' = [failures |-> 0, until |-> 0]

Init ==
  /\ now = 0 /\ hasPw \in BOOLEAN
  /\ slots = [i \in Slots |-> Empty]
  /\ login = [failures |-> 0, until |-> 0]
  /\ authHist = [issued |-> << >>, wrong |-> << >>, total |-> 0, restarts |-> 0]

\* Mutant: a full table gives up its first slot, whichever that is
EvictFirst == 1

\* the slot that expires first, the first of them when several do
EvictOldest ==
  CHOOSE i \in Slots :
    /\ \A j \in Slots : slots[i].expires <= slots[j].expires
    /\ \A j \in 1 .. (i - 1) : slots[i].expires < slots[j].expires

\* auth_issue_token: a free or expired slot, else the oldest
SlotToUse ==
  LET free == {i \in Slots : ~slots[i].used \/ slots[i].expires <= now} IN
  IF free = {} THEN EvictOldest ELSE CHOOSE i \in free : \A j \in free : i <= j

\* (two requests are never answered in the same microsecond)
IssueToken(wrong) ==
  /\ authHist.total < MaxIssued
  /\ \A i \in DOMAIN authHist.issued : authHist.issued[i].at < now
  /\ slots' = [slots EXCEPT ![SlotToUse] =
        [used |-> TRUE, token |-> authHist.total + 1, expires |-> now + Ttl]]
  /\ authHist' = [authHist EXCEPT !.total = @ + 1, !.wrong = wrong,
        !.issued = Append(@, [token |-> authHist.total + 1, at |-> now])]

\* web_server_auth_token_valid
TokenValid(t) ==
  \E i \in Slots : slots[i].used /\ slots[i].expires > now /\ slots[i].token = t

\* check_auth: everything is allowed until there is a password
Allowed(t) == ~hasPw \/ TokenValid(t)

\* auth_setup_handler: only when there is no password yet; the flash may fail,
\* and then nothing has changed
Setup ==
  /\ ~hasPw
  /\ hasPw' = TRUE
  /\ IssueToken(authHist.wrong)
  /\ UNCHANGED <<now, login>>

\* auth_login_handler.  Locked out, or no password: nothing is looked at.
MayLogin == hasPw /\ now >= login.until

LoginRight ==
  /\ MayLogin
  /\ login' = [failures |-> 0, until |-> 0]
  /\ IssueToken(<< >>)
  /\ UNCHANGED <<now, hasPw>>

\* Mutant: the lockout starts one failure late
LocksLate == login.failures >= MaxFailures

Locks == login.failures + 1 >= MaxFailures

LoginWrong ==
  /\ MayLogin
  /\ LET locks == Locks IN
     login' = [failures |-> IF locks THEN 0 ELSE login.failures + 1,
               until |-> IF locks THEN now + Lockout ELSE login.until]
  /\ Len(authHist.wrong) < MaxWrong
  /\ authHist' = [authHist EXCEPT !.wrong = Append(@, now)]
  /\ UNCHANGED <<now, hasPw, slots>>

Tick ==
  /\ now < MaxTime
  /\ now' = now + 1
  /\ UNCHANGED <<hasPw, slots, login, authHist>>

\* esp_restart or a power cut
Restart ==
  /\ authHist.restarts < MaxRestarts
  /\ Fresh
  /\ authHist' = [authHist EXCEPT !.issued = << >>, !.wrong = << >>, !.restarts = @ + 1]
  /\ UNCHANGED hasPw

Next == Setup \/ LoginRight \/ LoginWrong \/ Tick \/ Restart

Spec == Init /\ [][Next]_authVars

TypeOK ==
  /\ now \in 0 .. MaxTime /\ hasPw \in BOOLEAN
  /\ login.failures \in 0 .. (MaxFailures - 1)

\* A session lasts as long as it should and no longer: since the last start,
\* each of the last AUTH_MAX_TOKENS tokens is accepted until it is 24 hours
\* old, and no older one is accepted once it has aged, been evicted or was
\* lost in a restart (auth_issue_token's choice of a slot,
\* web_server_auth_token_valid).
NewestTokensWork ==
  LET n == Len(authHist.issued) IN
  /\ \A i \in 1 .. n :
        n - i < MaxTokens /\ now < authHist.issued[i].at + Ttl
          => Allowed(authHist.issued[i].token)
  /\ \A t \in 1 .. authHist.total :
        hasPw /\ Allowed(t) => \E i \in 1 .. n :
           authHist.issued[i].token = t /\ now < authHist.issued[i].at + Ttl

\* Guessing is slowed: since the last right password or restart, of any
\* LOGIN_MAX_FAILURES + 1 wrong passwords that were looked at one after the
\* other the last comes a lockout after the first (auth_login_handler's counter
\* is reset when it locks).
LoginThrottled ==
  \A i, j \in DOMAIN authHist.wrong :
     i + MaxFailures <= j => authHist.wrong[i] + Lockout <= authHist.wrong[j]

\* Access is neither lost nor given away: the newest sessions work for their
\* time, and guessing a password is slowed (web_server.c, auth_*).
AccessKept == NewestTokensWork /\ LoginThrottled
=============================================================================
