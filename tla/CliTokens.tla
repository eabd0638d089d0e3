------------------------------ MODULE CliTokens ------------------------------
(* The tokens of the command line client: mutongctl auth login and logout,   *)
(* the client every other command builds before its flags are parsed         *)
(* (cmd/mutongctl/root.go, internal/client/client.go), and the one file      *)
(* ~/.mutong/tokens.json that concurrent processes read, change and write    *)
(* back without a lock.                                                      *)
EXTENDS Naturals

CONSTANTS
  Servers, Procs,                \* servers, and processes of one user
  Life,                          \* ticks an access token lives
  MaxTime, MaxRuns, MaxFaults    \* bounds

VARIABLES
  clock,
  file,       \* tokens.json: [state, entries]
  proc,       \* processes
  serial,     \* access tokens issued so far
  saved,      \* what the file would hold if every save had been one step
  crossed,    \* two saves, or a save and a removal, overlapped; or a save was cut
  runs, upsets

vars == <<clock, file, proc, serial, saved, crossed, runs, upsets>>

Empty == [s \in {} |-> 0]
Whole(entries) == [state |-> "whole", entries |-> entries]
NoFile == [state |-> "none", entries |-> Empty]
Torn == [state |-> "torn", entries |-> Empty]

Gone == [job |-> "none", stage |-> "gone", server |-> "", flag |-> FALSE, callback |-> "",
         step |-> 0, read |-> Empty, access |-> 0, expiry |-> 0, uses |-> "", ended |-> ""]

Init ==
  /\ clock = 0 /\ file = NoFile /\ proc = [p \in Procs |-> Gone] /\ serial = 0
  /\ saved = Empty /\ crossed = FALSE /\ runs = 0 /\ upsets = 0

At(p, job, stage) == proc[p].job = job /\ proc[p].stage = stage
Upset == upsets < MaxFaults /\ upsets' = upsets + 1
Saving(p) == proc[p].stage \in {"truncate", "write"}
Entry(a, t) == [access |-> a, expiry |-> t]
End(p, how) == [proc EXCEPT ![p].stage = "gone", ![p].ended = how]

Start(p, job, s, flag) ==
  /\ proc[p].stage = "gone" /\ runs < MaxRuns
  /\ flag => job = "command"
  /\ proc' = [proc EXCEPT ![p] = [Gone EXCEPT !.job = job, !.server = s, !.flag = flag,
       !.stage = CASE job = "login" -> "listen" [] job = "command" -> "client" [] OTHER -> "remove"]]
  /\ runs' = runs + 1
  /\ UNCHANGED <<clock, file, serial, saved, crossed, upsets>>

-----------------------------------------------------------------------------
\* runLogin: the browser calls /callback on a goroutine of the local server;
\* only the first call counts. It stores the code, then the state or an error.
Callback(p, kind) ==
  /\ At(p, "login", "listen") /\ proc[p].step = 0
  /\ proc' = [proc EXCEPT ![p].callback = kind, ![p].step = 1]
  /\ UNCHANGED <<clock, file, serial, saved, crossed, runs, upsets>>
CallbackEnds(p) ==
  /\ proc[p].job = "login" /\ proc[p].step = 1 /\ proc[p].stage \in {"listen", "shutdown"}
  /\ proc' = [proc EXCEPT ![p].step = 2]
  /\ UNCHANGED <<clock, file, serial, saved, crossed, runs, upsets>>
\* The main goroutine looks every 100 ms for a code or an error, shuts the
\* server down, which waits for the callback, and compares the state.
Polled(p) ==
  /\ At(p, "login", "listen") /\ proc[p].step >= (IF proc[p].callback = "denied" THEN 2 ELSE 1)
  /\ proc' = [proc EXCEPT ![p].stage = "shutdown"]
  /\ UNCHANGED <<clock, file, serial, saved, crossed, runs, upsets>>
HandlerGone(p) == TRUE
HandlerDone(p) == proc[p].step = 2
StateStored(p) == proc[p].step = 2 /\ proc[p].callback = "ours"
CheckState(p) ==
  /\ At(p, "login", "shutdown") /\ HandlerDone(p)
  /\ proc' = IF proc[p].callback = "denied" THEN End(p, "denied")
             ELSE IF ~StateStored(p) THEN End(p, "mismatch")
             ELSE [proc EXCEPT ![p].stage = "exchange"]
  /\ UNCHANGED <<clock, file, serial, saved, crossed, runs, upsets>>

\* A token endpoint answers with a new access token: for a code, or for the
\* refresh token of the entry.
Issued(p) ==
  /\ serial' = serial + 1
  /\ proc' = [proc EXCEPT ![p].stage = "save", ![p].access = serial', ![p].expiry = clock + Life]
  /\ UNCHANGED <<clock, file, saved, crossed, runs>>
Exchange(p) == At(p, "login", "exchange") /\ Issued(p) /\ UNCHANGED upsets
ExchangeFails(p) ==
  /\ At(p, "login", "exchange") /\ Upset /\ proc' = End(p, "failed")
  /\ UNCHANGED <<clock, file, serial, saved, crossed, runs>>

-----------------------------------------------------------------------------
\* NewFactory builds the client of the commands before the flags are parsed:
\* the access token of the file, refreshed if its time is over, or else
\* MUTONG_TOKEN.
Found(p) == file.state = "whole" /\ proc[p].server \in DOMAIN file.entries
BuildClient(p) ==
  /\ At(p, "command", "client")
  /\ proc' = IF ~Found(p) THEN [proc EXCEPT ![p].stage = "flags", ![p].uses = "environment"]
             ELSE IF clock < file.entries[proc[p].server].expiry
               THEN [proc EXCEPT ![p].stage = "flags", ![p].uses = "file"]
             ELSE [proc EXCEPT ![p].stage = "refresh"]
  /\ UNCHANGED <<clock, file, serial, saved, crossed, runs, upsets>>
Refresh(p) == At(p, "command", "refresh") /\ Issued(p) /\ UNCHANGED upsets
RefreshFails(p) ==
  /\ At(p, "command", "refresh") /\ Upset
  /\ proc' = [proc EXCEPT ![p].stage = "flags", ![p].uses = "environment"]
  /\ UNCHANGED <<clock, file, serial, saved, crossed, runs>>
\* PersistentPreRunE puts a client with the flag's token in the root's factory;
\* the commands hold the client they were given when they were added.
Chosen(p) == proc[p].uses
RunCommand(p) ==
  /\ At(p, "command", "flags")
  /\ proc' = [End(p, "ran") EXCEPT ![p].uses = Chosen(p)]
  /\ UNCHANGED <<clock, file, serial, saved, crossed, runs, upsets>>

-----------------------------------------------------------------------------
\* saveToken of a login starts from nothing when the file cannot be read;
\* saveOAuthToken of a refresh gives up, and the command goes without.
ReadToSave(p) ==
  /\ proc[p].stage = "save"
  /\ crossed' = (crossed \/ \E o \in Procs \ {p} : Saving(o))
  /\ proc' = IF proc[p].job = "command" /\ ~Found(p)
             THEN [proc EXCEPT ![p].stage = "flags", ![p].uses = "environment"]
             ELSE [proc EXCEPT ![p].stage = "truncate", ![p].read = file.entries]
  /\ UNCHANGED <<clock, file, serial, saved, runs, upsets>>
\* os.WriteFile empties the file and then writes it.
Truncate(p) ==
  /\ proc[p].stage = "truncate"
  /\ file' = Torn /\ proc' = [proc EXCEPT ![p].stage = "write"]
  /\ UNCHANGED <<clock, serial, saved, crossed, runs, upsets>>
Put(entries, s, e) == [t \in DOMAIN entries \cup {s} |-> IF t = s THEN e ELSE entries[t]]
OwnOnly(read, s, e) == [t \in {s} |-> e]
Merged(read, s, e) == Put(read, s, e)
Write(p) ==
  /\ proc[p].stage = "write"
  /\ LET e == Entry(proc[p].access, proc[p].expiry)
     IN /\ file' = Whole(Merged(proc[p].read, proc[p].server, e))
        /\ saved' = Put(saved, proc[p].server, e)
  /\ proc' = IF proc[p].job = "login" THEN End(p, "in")
             ELSE [proc EXCEPT ![p].stage = "flags", ![p].uses = "file"]
  /\ UNCHANGED <<clock, serial, crossed, runs, upsets>>

\* runLogout removes the file; with --revoke it tells the servers first.
RemoveFile(p) ==
  /\ At(p, "logout", "remove")
  /\ file' = NoFile /\ saved' = Empty /\ proc' = End(p, "out")
  /\ crossed' = \E o \in Procs : Saving(o)
  /\ UNCHANGED <<clock, serial, runs, upsets>>

\* Ctrl-C.
Interrupt(p) ==
  /\ proc[p].stage # "gone" /\ Upset
  /\ crossed' = (crossed \/ proc[p].stage = "write")
  /\ proc' = End(p, "interrupted")
  /\ UNCHANGED <<clock, file, serial, saved, runs>>
Tick ==
  /\ clock < MaxTime /\ clock' = clock + 1
  /\ UNCHANGED <<file, proc, serial, saved, crossed, runs, upsets>>

Next ==
  \/ \E p \in Procs :
       \/ \E job \in {"login", "command", "logout"}, s \in Servers, flag \in BOOLEAN :
            Start(p, job, s, flag)
       \/ \E kind \in {"ours", "other", "denied"} : Callback(p, kind)
       \/ CallbackEnds(p) \/ Polled(p) \/ CheckState(p) \/ Exchange(p) \/ ExchangeFails(p)
       \/ BuildClient(p) \/ Refresh(p) \/ RefreshFails(p) \/ RunCommand(p)
       \/ ReadToSave(p) \/ Truncate(p) \/ Write(p) \/ RemoveFile(p) \/ Interrupt(p)
  \/ Tick

Spec == Init /\ [][Next]_vars

-----------------------------------------------------------------------------
\* A login whose browser comes back with the login's own state is never ended
\* for another state, although the code and the state are stored one after the
\* other by a goroutine the main one does not wait for before it goes on:
\* shutting the server down waits for it.
OwnStateAccepted ==
  \A p \in Procs : proc[p].ended = "mismatch" => proc[p].callback # "ours"

\* As long as no save overlapped another save or a removal, and none was cut
\* short, the file holds the newest token of every server logged in to since
\* the last logout: refreshing one server's token neither loses nor revives
\* another's.
FileAsSerial ==
  (~crossed /\ file.state # "torn") => file.entries = saved

\* docs/mutongctl-usage.md says that a token can be given by --token: a command
\* that finds no login uses the flag's token.
FlagTokenUsed ==
  \A p \in Procs : (proc[p].ended = "ran" /\ proc[p].flag) => proc[p].uses # "environment"
=============================================================================
