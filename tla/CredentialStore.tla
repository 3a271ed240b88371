--------------------------- MODULE CredentialStore ---------------------------
(***************************************************************************)
(* The credentials of one environment in the Keychain                       *)
(* (adapters/macos-keychain.ts), and the commands that put them there       *)
(* (scripts/credentials.ts, scripts/credentials-connect.ts with             *)
(* adapters/bybit-agent-connect.ts).                                        *)
(* A set is three records, and each is read, written and deleted by a       *)
(* command of its own that may fail, fail after its effect, or store        *)
(* something else; a set half written is rolled back with more such         *)
(* commands.  Commands of the operator run one after another, and may be    *)
(* interrupted.  A Keychain command has no effect after its end, and what a *)
(* read answers is so.                                                      *)
(***************************************************************************)
EXTENDS Naturals, Sequences, FiniteSets

CONSTANTS
    Invocations,     \* the commands of the operator
    KindOf,          \* of each: "connect", "setup" or "remove"
    Credentials,     \* the sets the exchange issues
    AccountFor,      \* the account of each
    SubaccountLimit, \* MAX_AI_SUBACCOUNTS
    FoundRecords,    \* the records it may find
    KeychainFaults   \* bound: Keychain commands that go wrong

VARIABLES
    keychain,   \* the records of the environment
    command,    \* the commands
    subaccounts,\* the accounts there are at the exchange
    mishaps     \* how many Keychain commands went wrong

credentialVars == <<keychain, command, subaccounts, mishaps>>

Names == <<"api-key", "api-secret", "account-id">>
Records == {"api-key", "api-secret", "account-id"}
Whole(set) == [name \in Records |-> set]
Absent == Whole("absent")

\* A value is the set it was issued with, nothing, or something no set has.
Values == Credentials \cup {"absent", "corrupt"}
Present(values) == \A name \in Records : values[name] \in Credentials

ASSUME CredentialAssumption ==
    /\ KindOf \in [Invocations -> {"connect", "setup", "remove"}]
    /\ SubaccountLimit \in Nat /\ KeychainFaults \in Nat
    /\ Credentials \cap {"absent", "corrupt", "unreadable"} = {}
    /\ FoundRecords \subseteq [Records -> Values]

CredentialInit ==
    /\ keychain = Absent
    /\ command = [c \in Invocations |->
                    [at |-> "new", i |-> 1, found |-> Absent, set |-> Absent,
                     seen |-> Absent, previous |-> Absent, before |-> Absent, fine |-> TRUE,
                     cleaning |-> FALSE, code |-> "none", choice |-> "none",
                     listed |-> {}, told |-> "nothing", left |-> Absent]]
    /\ subaccounts = {}
    /\ mishaps = 0

Working(c) == command[c].at \notin {"new", "ended", "killed"}
NameOf(c) == Names[command[c].i]

(***************************************************************************)
(* What each step comes to.                                                 *)
(***************************************************************************)
\* A record of c after its step: the next name of the pass, or another pass.
Onward(r, pass) == IF r.i < Len(Names) THEN [r EXCEPT !.i = @ + 1]
                   ELSE [r EXCEPT !.i = 1, !.at = pass, !.seen = Absent]
Pass(r, pass) == [r EXCEPT !.at = pass, !.i = 1, !.seen = Absent, !.fine = TRUE]
Tell(r, told) == [r EXCEPT !.at = "ended", !.told = told]
Become(c, r) ==
    command' = [command EXCEPT
                   ![c] = IF r.at = "ended" THEN [r EXCEPT !.left = keychain'] ELSE r]

\* A save that threw: the error of the command, or that its cleanup was incomplete.
Thrown(r) == Tell(r, IF r.cleaning THEN "incomplete" ELSE "failed")

\* A save that returned.
Returned(c, r) ==
    IF r.cleaning THEN Tell(r, "failed")
    ELSE IF KindOf[c] = "setup" THEN Tell(r, "stored")
    ELSE Pass(r, "load")

\* Variant: a restored set need only be there.
PresentAgain(r) == Present(r.seen)

\* The restored records are those of the snapshot, each of them.
Restored(r) == r.seen = r.previous

AfterSnapshot(r) ==
    IF \E name \in Records : r.seen[name] = "unreadable" THEN Thrown(r)
    ELSE Pass([r EXCEPT !.previous = IF Present(r.seen) THEN r.seen ELSE Absent], "write")

\* The first record that is not there decides what a load throws.
AfterPrevious(r) ==
    LET troubled == {k \in 1..Len(Names) : r.seen[Names[k]] \notin Credentials}
        first == CHOOSE k \in troubled : \A k2 \in troubled : k <= k2
    IN IF troubled = {} THEN Pass([r EXCEPT !.before = r.seen], "session")
       ELSE IF r.seen[Names[first]] = "unreadable" THEN Tell(r, "failed")
       ELSE Pass(r, "session")

AfterReading(r) ==
    CASE r.at = "previous" -> AfterPrevious(r)
      [] r.at = "snapshot" -> AfterSnapshot(r)
      [] r.at = "matches" -> IF Restored(r) THEN Thrown(r) ELSE Pass(r, "clear")
      [] r.at = "absent" -> IF r.fine /\ r.seen = Absent THEN Thrown(r)
                            ELSE Tell(r, "incomplete")
      [] r.at = "load" -> IF r.seen = r.set THEN Tell(r, "stored")
                          ELSE Pass([r EXCEPT !.cleaning = TRUE], "remove")

AfterRemoval(c, r) ==
    IF KindOf[c] = "remove" THEN Tell(r, IF r.fine THEN "removed" ELSE "not removed")
    ELSE IF r.before # Absent THEN Pass([r EXCEPT !.set = r.before], "snapshot")
    ELSE Tell(r, IF r.fine THEN "failed" ELSE "incomplete")

(***************************************************************************)
(* The Keychain commands: what a record becomes, and whether the exit code  *)
(* is zero.                                                                 *)
(***************************************************************************)
Counted(wrong) ==
    /\ mishaps' = IF wrong THEN mishaps + 1 ELSE mishaps
    /\ mishaps' <= KeychainFaults

Readings(value) == {value, "unreadable"}
Additions(value, old) ==
    {<<value, TRUE>>, <<old, FALSE>>, <<value, FALSE>>, <<"corrupt", TRUE>>}
Deletions(old) == {<<"absent", TRUE>>, <<old, FALSE>>, <<"absent", FALSE>>}

ReadRecord(c, seen) ==
    LET r == [command[c] EXCEPT !.seen[NameOf(c)] = seen]
    IN /\ command[c].at \in {"previous", "snapshot", "matches", "absent", "load"}
       /\ seen \in Readings(keychain[NameOf(c)]) /\ Counted(seen = "unreadable")
       /\ UNCHANGED <<keychain, subaccounts>>
       /\ Become(c, IF r.i < Len(Names) THEN [r EXCEPT !.i = @ + 1] ELSE AfterReading(r))

WriteRecord(c, outcome) ==
    /\ command[c].at = "write"
    /\ outcome \in Additions(command[c].set[NameOf(c)], keychain[NameOf(c)])
    /\ Counted(outcome # <<command[c].set[NameOf(c)], TRUE>>)
    /\ keychain' = [keychain EXCEPT ![NameOf(c)] = outcome[1]]
    /\ Become(c, [command[c] EXCEPT !.at = "read back", !.fine = outcome[2]])
    /\ UNCHANGED subaccounts

\* Each record is read back before the next is written.
ReadBack(c, seen) ==
    LET r == command[c]
        written == r.fine /\ seen = r.set[NameOf(c)]
    IN /\ r.at = "read back"
       /\ seen \in Readings(keychain[NameOf(c)]) /\ Counted(seen = "unreadable")
       /\ UNCHANGED <<keychain, subaccounts>>
       /\ Become(c, IF written /\ r.i < Len(Names)
                    THEN [r EXCEPT !.at = "write", !.i = @ + 1]
                    ELSE IF written THEN Returned(c, r)
                    ELSE IF r.previous # Absent THEN Pass(r, "restore")
                    ELSE Pass(r, "clear"))

\* What the writes of a restore say is not looked at.
RestoreRecord(c, outcome) ==
    /\ command[c].at = "restore"
    /\ outcome \in Additions(command[c].previous[NameOf(c)], keychain[NameOf(c)])
    /\ Counted(outcome # <<command[c].previous[NameOf(c)], TRUE>>)
    /\ keychain' = [keychain EXCEPT ![NameOf(c)] = outcome[1]]
    /\ Become(c, Onward(command[c], "matches"))
    /\ UNCHANGED subaccounts

DeleteRecord(c, outcome) ==
    LET r == [command[c] EXCEPT !.fine = @ /\ outcome[2]]
    IN /\ r.at \in {"clear", "remove"}
       /\ outcome \in Deletions(keychain[NameOf(c)])
       /\ Counted(outcome # <<"absent", TRUE>>)
       /\ keychain' = [keychain EXCEPT ![NameOf(c)] = outcome[1]]
       /\ Become(c, IF r.at = "clear" \/ r.i < Len(Names) THEN Onward(r, "absent")
                    ELSE AfterRemoval(c, r))
       /\ UNCHANGED subaccounts

(***************************************************************************)
(* The commands.                                                            *)
(***************************************************************************)
\* The Keychain and the accounts as they are found.
FindKeychain(found, there) ==
    /\ \A c \in Invocations : command[c].at = "new"
    /\ keychain = Absent /\ subaccounts = {}
    /\ keychain' = found /\ subaccounts' = there
    /\ UNCHANGED <<command, mishaps>>

\* A command begins, setup with a set that is typed in.
Invoke(c, typed) ==
    LET r == [command[c] EXCEPT !.found = keychain]
    IN /\ command[c].at = "new" /\ \A d \in Invocations : ~Working(d)
       /\ UNCHANGED <<keychain, subaccounts, mishaps>>
       /\ Become(c, CASE KindOf[c] = "setup" ->
                            Pass([r EXCEPT !.set = Whole(typed)], "snapshot")
                      [] KindOf[c] = "connect" -> Pass(r, "preflight")
                      [] OTHER -> Pass(r, "remove"))

\* A sentinel makes its round trip through a record of its own.
Preflight(c, verified) ==
    /\ command[c].at = "preflight"
    /\ UNCHANGED <<keychain, subaccounts, mishaps>>
    /\ Become(c, IF verified THEN Pass(command[c], "previous")
                 ELSE Tell(command[c], "failed"))

\* A port is found for the session, or none.
CreateSession(c, listening) ==
    /\ command[c].at = "session"
    /\ UNCHANGED <<keychain, subaccounts, mishaps>>
    /\ Become(c, IF listening THEN Pass(command[c], "waiting")
                 ELSE Tell(command[c], "failed"))

\* The first code ends the wait, whoever delivers it.  The callback only brings one of this
\* session; one with another state ends the session.  A pasted one may be of any.
Codes == [loopback |-> {"own"}, pasted |-> {"own", "other"}]
DeliverCode(c, way, code) ==
    /\ command[c].at = "waiting" /\ code \in Codes[way]
    /\ UNCHANGED <<keychain, subaccounts, mishaps>>
    /\ Become(c, [command[c] EXCEPT !.at = "exchange", !.code = code])

\* The callback is not valid, the time is over, or the operator cancels.
EndSession(c) ==
    /\ command[c].at = "waiting"
    /\ UNCHANGED <<keychain, subaccounts, mishaps>>
    /\ Become(c, Tell(command[c], "failed"))

\* Only a code of this session is worth a token.
ExchangeCode(c, answered) ==
    /\ command[c].at = "exchange"
    /\ UNCHANGED <<keychain, subaccounts, mishaps>>
    /\ Become(c, IF answered /\ command[c].code = "own" THEN Pass(command[c], "list")
                 ELSE Tell(command[c], "failed"))

ListAccounts(c) ==
    /\ command[c].at = "list"
    /\ UNCHANGED <<keychain, subaccounts, mishaps>>
    /\ Become(c, [command[c] EXCEPT !.at = "choose", !.listed = subaccounts])

\* One of the listed accounts or, below the limit, a new one.
Choices(c) ==
    command[c].listed
    \cup (IF Cardinality(command[c].listed) < SubaccountLimit THEN {"create"} ELSE {})

Choose(c, choice) ==
    /\ command[c].at = "choose" /\ choice \in Choices(c)
    /\ UNCHANGED <<keychain, subaccounts, mishaps>>
    /\ Become(c, [command[c] EXCEPT !.at = "fetch", !.choice = choice])

ChooseNothing(c) ==
    /\ command[c].at = "choose"
    /\ UNCHANGED <<keychain, subaccounts, mishaps>>
    /\ Become(c, Tell(command[c], "failed"))

\* The account a set is answered with has to be the one chosen, or none of those listed.
Fits(c, set) ==
    IF command[c].choice = "create" THEN AccountFor[set] \notin command[c].listed
    ELSE AccountFor[set] = command[c].choice

\* The exchange issues a set, of whatever account; a lost answer is one that does not fit.
FetchCredentials(c, set) ==
    /\ command[c].at = "fetch"
    /\ subaccounts' = IF command[c].choice = "create" THEN subaccounts \cup {AccountFor[set]}
                      ELSE subaccounts
    /\ UNCHANGED <<keychain, mishaps>>
    /\ Become(c, IF Fits(c, set)
                 THEN Pass([command[c] EXCEPT !.set = Whole(set)], "snapshot")
                 ELSE Tell(command[c], "failed"))

\* The operator interrupts it, or it dies; the Keychain command under way dies with it.
Interrupt(c) ==
    /\ Working(c)
    /\ command' = [command EXCEPT ![c].at = "killed"]
    /\ UNCHANGED <<keychain, subaccounts, mishaps>>

KeychainStep(c) ==
    \/ \E seen \in Readings(keychain[NameOf(c)]) : ReadRecord(c, seen) \/ ReadBack(c, seen)
    \/ \E outcome \in Additions(command[c].set[NameOf(c)], keychain[NameOf(c)]) :
          WriteRecord(c, outcome)
    \/ \E outcome \in Additions(command[c].previous[NameOf(c)], keychain[NameOf(c)]) :
          RestoreRecord(c, outcome)
    \/ \E outcome \in Deletions(keychain[NameOf(c)]) : DeleteRecord(c, outcome)

CredentialNext ==
    \/ \E found \in FoundRecords, there \in SUBSET {AccountFor[set] : set \in Credentials} :
          FindKeychain(found, there)
    \/ \E c \in Invocations :
          \/ \E typed \in Credentials : Invoke(c, typed)
          \/ \E verified \in BOOLEAN : Preflight(c, verified)
          \/ \E listening \in BOOLEAN : CreateSession(c, listening)
          \/ \E way \in DOMAIN Codes : \E code \in Codes[way] : DeliverCode(c, way, code)
          \/ EndSession(c)
          \/ \E answered \in BOOLEAN : ExchangeCode(c, answered)
          \/ ListAccounts(c)
          \/ \E choice \in Choices(c) : Choose(c, choice)
          \/ ChooseNothing(c)
          \/ \E set \in Credentials : FetchCredentials(c, set)
          \/ KeychainStep(c)
          \/ Interrupt(c)

CredentialSpec == CredentialInit /\ [][CredentialNext]_credentialVars

(***************************************************************************)
(* Properties                                                               *)
(***************************************************************************)
CredentialTypeOK ==
    /\ keychain \in [Records -> Values] /\ mishaps \in 0..KeychainFaults
    /\ \A c \in Invocations :
          /\ command[c].i \in 1..Len(Names)
          /\ command[c].seen \in [Records -> Values \cup {"unreadable"}]
          /\ {command[c].found, command[c].set, command[c].previous, command[c].before}
                \subseteq [Records -> Values]
          /\ command[c].told \in {"nothing", "stored", "failed", "incomplete", "removed",
                                  "not removed"}

\* No command leaves records of two sets behind without saying so: one that succeeds
\* leaves the set it was to store, of the account the operator chose; one that fails
\* leaves what it found or nothing, unless its message says that the rollback or the
\* cleanup is incomplete - whatever Keychain command fails on the way, of those that
\* store, roll back and verify (save, remove, runCredentialsConnectCli).
WholeOrTold ==
    \A c \in Invocations :
        LET r == command[c]
        IN /\ r.told = "stored" =>
                 /\ \E set \in Credentials : r.left = Whole(set) /\ r.set = Whole(set)
                 /\ KindOf[c] = "connect" =>
                       \E set \in Credentials : r.left = Whole(set) /\ Fits(c, set)
           /\ r.told = "failed" => r.left \in {r.found, Absent}
           /\ r.told = "removed" => r.left = Absent
=============================================================================
