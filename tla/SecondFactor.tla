---------------------------- MODULE SecondFactor ----------------------------
(* The second factor of one user: enrolment, the login in two phases, the  *)
(* codes of the authenticator, which are burned in memory, and the         *)
(* recovery codes, which are struck from the user's row. A request reads   *)
(* the whole row and writes the whole row back.                            *)
EXTENDS Integers

CONSTANTS
  FactorRequests, \* the requests that may overlap
  MaxSecrets,     \* the secrets and sets of recovery codes made, 1..n
  MaxLogins,      \* the logins that reach phase 2, 1..n
  Period, Skew,   \* totp.Config, in ticks of the clock and in periods
  MaxClock

ASSUME FactorAssumption == Period \in Nat \ {0} /\ Skew \in Nat

VARIABLES
  factorRow,     \* the stored row
  factorReplay,  \* replay: until when each code used is burned
  factorPending, \* pending: the step-up sessions
  factorOps,     \* the requests under way
  factorClock,
  factorMade,    \* the secrets and the sets of recovery codes made so far
  factorLogins,  \* the step-up sessions made so far
  factorUsed,    \* history: how often each code has logged in, since the last start
  factorLate,    \* history: the codes burned when they did not verify any more
  factorStale    \* history: a row was written back over a newer one

factorVars == <<factorRow, factorReplay, factorPending, factorOps, factorClock, factorMade,
                factorLogins, factorUsed, factorLate, factorStale>>

\* A row: its secret, 0 for no row, whether it is enabled, its recovery codes. A
\* request keeps the row it read (for the property, whether it is still the stored one),
\* and the code that has verified with the time at which it is to be burned.
NoRow == [secret |-> 0, enabled |-> FALSE, codes |-> {}]
RecoverySet(n) == {[set |-> n, number |-> k] : k \in {1, 2}}
NoCode == [secret |-> 0, period |-> 0]
FactorIdle == [do |-> "idle", row |-> NoRow, current |-> TRUE, code |-> NoCode, now |-> 0]

FactorInit ==
  /\ factorRow = NoRow
  /\ factorReplay = <<>> /\ factorPending = {}
  /\ factorOps = [r \in FactorRequests |-> FactorIdle]
  /\ factorClock = 0 /\ factorMade = 0 /\ factorLogins = 0
  /\ factorUsed = <<>> /\ factorLate = {} /\ factorStale = FALSE

(***************************************************************************)
(* totp.Config.Verify: the code of a period is accepted from Skew periods  *)
(* before it to Skew periods after it.                                     *)
(***************************************************************************)
AuthCode(secret, period) == [secret |-> secret, period |-> period]
Verifies(secret) == {AuthCode(secret, p) : p \in (factorClock \div Period - Skew) ..
                                                  (factorClock \div Period + Skew)}

FactorGet(r, do) ==
  /\ factorOps[r].do = "idle"
  /\ factorOps' = [factorOps EXCEPT ![r] = [FactorIdle EXCEPT !.do = do, !.row = factorRow]]
FactorEnd(r) == factorOps' = [factorOps EXCEPT ![r] = FactorIdle]

Outdated(ops) == [r \in FactorRequests |-> [ops[r] EXCEPT !.current = ops[r].do = "idle"]]

\* totpStore.Set: the whole row is written, and the request ends.
FactorSet(r, row) ==
  /\ factorStale' = (factorStale \/ ~factorOps[r].current)
  /\ factorRow' = row
  /\ factorOps' = Outdated([factorOps EXCEPT ![r] = FactorIdle])

(***************************************************************************)
(* Enrolment and the user's own changes: read, then written.               *)
(***************************************************************************)
FactorRead(r, do) ==
  /\ FactorGet(r, do)
  /\ \/ do = "enroll" /\ ~factorRow.enabled /\ factorMade < MaxSecrets
     \/ do = "confirm" /\ factorRow.secret # 0 /\ ~factorRow.enabled
     \/ do = "regenerate" /\ factorRow.enabled /\ factorMade < MaxSecrets
  /\ UNCHANGED <<factorRow, factorReplay, factorPending, factorClock, factorMade, factorLogins,
                 factorUsed, factorLate, factorStale>>

BeginEnroll(r) ==
  /\ factorOps[r].do = "enroll" /\ factorMade < MaxSecrets
  /\ factorMade' = factorMade + 1
  /\ FactorSet(r, [NoRow EXCEPT !.secret = factorMade + 1])
  /\ UNCHANGED <<factorReplay, factorPending, factorClock, factorLogins, factorUsed,
                 factorLate>>

\* The first code is verified, and not burned.
FinishEnroll(r) ==
  /\ factorOps[r].do = "confirm"
  /\ LET row == factorOps[r].row
     IN FactorSet(r, [row EXCEPT !.enabled = TRUE, !.codes = RecoverySet(row.secret)])
  /\ UNCHANGED <<factorReplay, factorPending, factorClock, factorMade, factorLogins, factorUsed,
                 factorLate>>

RegenerateRecoveryCodes(r) ==
  /\ factorOps[r].do = "regenerate" /\ factorMade < MaxSecrets
  /\ factorMade' = factorMade + 1
  /\ FactorSet(r, [factorOps[r].row EXCEPT !.codes = RecoverySet(factorMade + 1)])
  /\ UNCHANGED <<factorReplay, factorPending, factorClock, factorLogins, factorUsed,
                 factorLate>>

\* Disable and AdminResetTOTP delete the row.
FactorDelete ==
  /\ factorRow.secret # 0
  /\ factorRow' = NoRow
  /\ factorOps' = Outdated(factorOps)
  /\ UNCHANGED <<factorReplay, factorPending, factorClock, factorMade, factorLogins,
                 factorUsed, factorLate, factorStale>>

(***************************************************************************)
(* The login: MFAStrategy after the password.                              *)
(***************************************************************************)
\* SavePending. (Without an enabled row the login is over, and nothing changes.)
HandleBegin ==
  /\ factorRow.enabled /\ factorLogins < MaxLogins
  /\ factorLogins' = factorLogins + 1
  /\ factorPending' = factorPending \cup {factorLogins + 1}
  /\ UNCHANGED <<factorRow, factorReplay, factorOps, factorClock, factorMade, factorUsed,
                 factorLate, factorStale>>

\* ConsumePending and the row. The session is gone whatever the code is.
HandleFinish(r, session) ==
  /\ session \in factorPending
  /\ factorPending' = factorPending \ {session}
  /\ IF factorRow.enabled THEN FactorGet(r, "verify")
                          ELSE factorOps[r].do = "idle" /\ UNCHANGED factorOps
  /\ UNCHANGED <<factorRow, factorReplay, factorClock, factorMade, factorLogins, factorUsed,
                 factorLate, factorStale>>

PendingExpire(session) ==
  /\ session \in factorPending
  /\ factorPending' = factorPending \ {session}
  /\ UNCHANGED <<factorRow, factorReplay, factorOps, factorClock, factorMade, factorLogins,
                 factorUsed, factorLate, factorStale>>

CountOf(code) == IF code \in DOMAIN factorUsed THEN factorUsed[code] ELSE 0
LogIn(code) == factorUsed' = [c \in DOMAIN factorUsed \cup {code} |->
                                IF c = code THEN CountOf(c) + 1 ELSE factorUsed[c]]

\* VerifyForLogin, with a code of the authenticator: the code is verified at one
\* reading of the clock, markReplay takes another one and then its mutex.
VerifyCode(r, code) ==
  /\ factorOps[r].do = "verify"
  /\ code \in Verifies(factorOps[r].row.secret)
  /\ factorOps' = [factorOps EXCEPT ![r].do = "verified", ![r].code = code]
  /\ UNCHANGED <<factorRow, factorReplay, factorPending, factorClock, factorMade, factorLogins,
                 factorUsed, factorLate, factorStale>>

ReadClock(r) ==
  /\ factorOps[r].do = "verified"
  /\ factorOps' = [factorOps EXCEPT ![r].do = "burn", ![r].now = factorClock]
  /\ UNCHANGED <<factorRow, factorReplay, factorPending, factorClock, factorMade, factorLogins,
                 factorUsed, factorLate, factorStale>>

\* A code that is burned at the time the request has read ends it; another one logs
\* in, and the row is then written back with the time of its use, the error of which
\* is dropped.
\* Faulty: the period the code belongs to is not counted.
FaultyBurnedFor == Period * (2 * Skew)
BurnedFor == Period * (2 * Skew + 1)
Burned(code, now) == code \in DOMAIN factorReplay /\ factorReplay[code] > now
\* The first tick at which a code does not verify any more.
Until(code) == (code.period + Skew + 1) * Period
MarkReplay(r) ==
  /\ factorOps[r].do = "burn"
  /\ LET code == factorOps[r].code
         now == factorOps[r].now
     IN IF Burned(code, now)
          THEN FactorEnd(r) /\ UNCHANGED <<factorReplay, factorUsed, factorLate>>
          ELSE /\ factorReplay' = [c \in DOMAIN factorReplay \cup {code} |->
                                     IF c = code THEN now + BurnedFor ELSE factorReplay[c]]
               /\ LogIn(code)
               /\ factorLate' = IF factorClock >= Until(code) THEN factorLate \cup {code}
                                ELSE factorLate
               /\ factorOps' = [factorOps EXCEPT ![r].do = "touch", ![r].code = NoCode, ![r].now = 0]
  /\ UNCHANGED <<factorRow, factorPending, factorClock, factorMade, factorLogins, factorStale>>

TouchRow(r) ==
  /\ factorOps[r].do = "touch"
  /\ FactorSet(r, factorOps[r].row)
  /\ UNCHANGED <<factorReplay, factorPending, factorClock, factorMade, factorLogins, factorUsed,
                 factorLate>>

\* With a recovery code: the row without it is written, and the login succeeds.
BurnRecovery(r, code) ==
  /\ factorOps[r].do = "verify"
  /\ code \in factorOps[r].row.codes
  /\ FactorSet(r, [factorOps[r].row EXCEPT !.codes = @ \ {code}])
  /\ LogIn(code)
  /\ UNCHANGED <<factorReplay, factorPending, factorClock, factorMade, factorLogins, factorLate>>

\* Another code, or the storage fails: the request ends.
FactorFail(r) ==
  /\ factorOps[r].do \notin {"idle", "verified", "burn"}
  /\ FactorEnd(r)
  /\ UNCHANGED <<factorRow, factorReplay, factorPending, factorClock, factorMade, factorLogins,
                 factorUsed, factorLate, factorStale>>

(***************************************************************************)
(* Time, the sweep of the burned codes, and a restart.                     *)
(***************************************************************************)
FactorTick ==
  /\ factorClock < MaxClock
  /\ factorClock' = factorClock + 1
  /\ UNCHANGED <<factorRow, factorReplay, factorPending, factorOps, factorMade, factorLogins,
                 factorUsed, factorLate, factorStale>>

FactorGc ==
  /\ \E code \in DOMAIN factorReplay : ~Burned(code, factorClock)
  /\ factorReplay' = [c \in {d \in DOMAIN factorReplay : Burned(d, factorClock)} |-> factorReplay[c]]
  /\ UNCHANGED <<factorRow, factorPending, factorOps, factorClock, factorMade, factorLogins,
                 factorUsed, factorLate, factorStale>>

FactorRestart ==
  /\ factorReplay # <<>>
  /\ factorReplay' = <<>> /\ factorPending' = {}
  /\ factorOps' = [r \in FactorRequests |-> FactorIdle]
  /\ factorUsed' = [c \in {d \in DOMAIN factorUsed : "set" \in DOMAIN d} |-> factorUsed[c]]
  /\ factorLate' = {}
  /\ UNCHANGED <<factorRow, factorClock, factorMade, factorLogins, factorStale>>

FactorNext ==
  \/ \E r \in FactorRequests :
       \/ \E do \in {"enroll", "confirm", "regenerate"} : FactorRead(r, do)
       \/ BeginEnroll(r) \/ FinishEnroll(r) \/ RegenerateRecoveryCodes(r)
       \/ \E session \in factorPending : HandleFinish(r, session)
       \/ \E code \in Verifies(factorOps[r].row.secret) : VerifyCode(r, code)
       \/ ReadClock(r) \/ MarkReplay(r) \/ TouchRow(r)
       \/ \E code \in factorOps[r].row.codes : BurnRecovery(r, code)
       \/ FactorFail(r)
  \/ FactorDelete \/ HandleBegin
  \/ \E session \in factorPending : PendingExpire(session)
  \/ FactorTick \/ FactorGc \/ FactorRestart

FactorSpec == FactorInit /\ [][FactorNext]_factorVars

(***************************************************************************)
(* Properties.                                                             *)
(***************************************************************************)
\* A code logs in once. A code of the authenticator does in whatever order requests
\* overlap, at every moment of its window (until a restart, which forgets the burned
\* codes); again only by a request that verified it within the window and comes to
\* burn it when the window is over, and with it, perhaps, the entry. A recovery code
\* does unless a row read earlier was written over a newer one.
CodeOnce ==
  \A code \in DOMAIN factorUsed :
    factorUsed[code] > 1 => IF "set" \in DOMAIN code THEN factorStale ELSE code \in factorLate
=============================================================================
