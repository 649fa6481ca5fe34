------------------------------ MODULE ConfigStore ------------------------------
(***************************************************************************)
(* The configuration: config.json, the global AppConfig that every         *)
(* exported function decodes it into, the Cloudflare API behind it, and    *)
(* the programs that use it, the application with its threads and the      *)
(* command line.                                                           *)
(*                                                                         *)
(* A record is five groups of fields in the order of the file: the key,    *)
(* the license, the identity (id, token, addresses, endpoints) and the two *)
(* halves of the WireGuard device.  Nothing guards AppConfig, so a decode  *)
(* or an assignment is one step per group.  A key, a device or a WireGuard *)
(* device is its number; zero is an empty field, and a record without      *)
(* fields is a file that cannot be decoded (missing, or truncated).  A     *)
(* function that returns because it cannot decode the file changes nothing *)
(* (the decoder reads a whole value before it assigns) and is no step.     *)
(***************************************************************************)
EXTENDS Naturals, Sequences, FiniteSets, Functions

CONSTANTS
    Callers,    \* the threads of the application (the command line has one)
    MaxCalls,   \* bound of the model: calls in all
    MaxDevices  \* bound of the model: registrations of each kind, and keys

ASSUME ConfigStoreAssumption ==
    /\ IsFiniteSet(Callers) /\ Callers # {}
    /\ MaxCalls \in Nat /\ MaxDevices \in Nat

VARIABLES
    file,       \* what config.json decodes to
    mem,        \* AppConfig
    program,    \* which program runs
    at, op,     \* per caller: its place and the function it is in
    src, todo,  \* per caller: the record it copies from, the groups left to copy
    devices,    \* the server: key and license of every MASQUE device
    wgDevices,  \* the server: how many WireGuard devices it has registered
    keys,       \* how many key pairs have been generated
    calls,
    overlaps,   \* history: which kinds of calls have met
    alone,      \* history: the callers whose call has met no other
    failed      \* history: a reply was lost, a save failed, or a program died in a call

local == <<at, op, src, todo>>
server == <<devices, wgDevices, keys>>
vars == <<file, mem, program, local, server, calls, overlaps, alone, failed>>

Groups == <<"key", "license", "id", "wgKey", "wgId">>
Blank == [key |-> 0, license |-> "", id |-> 0, wgKey |-> 0, wgId |-> 0]
Readable == file # Blank

AppOps == {"Register", "RegisterWg", "UpdateLicense", "RemoveLicense", "Read", "GetAccountInfo"}
CliOps == {"register", "enroll"}
LicenseOps == {"UpdateLicense", "RemoveLicense"}
Registers == {"Register", "register"}

\* Seeded bug: the WireGuard fields without omitempty.
PresentAll(r) == Groups

\* omitempty: an empty WireGuard field is not in the file, and a field that is
\* not in the file leaves AppConfig as it is.
Present(r) ==
    <<"key", "license", "id">> \o (IF r.wgKey # 0 THEN <<"wgKey">> ELSE <<>>)
                              \o (IF r.wgId # 0 THEN <<"wgId">> ELSE <<>>)

Init ==
    /\ file = Blank /\ mem = Blank /\ program = "none"
    /\ at = [c \in Callers |-> "idle"] /\ op = [c \in Callers |-> "Read"]
    /\ src = [c \in Callers |-> Blank] /\ todo = [c \in Callers |-> <<>>]
    /\ devices = <<>> /\ wgDevices = 0 /\ keys = 0 /\ calls = 0
    /\ overlaps = {} /\ alone = {} /\ failed = FALSE

Goto(c, place) == at' = [at EXCEPT ![c] = place]
Copies(c, r, groups) == /\ src' = [src EXCEPT ![c] = r] /\ todo' = [todo EXCEPT ![c] = groups]
Return(c) == /\ Goto(c, "idle") /\ Copies(c, Blank, <<>>) /\ UNCHANGED op

\* A program starts with an empty AppConfig.
Start(p) ==
    /\ program = "none" /\ program' = p
    /\ UNCHANGED <<file, mem, local, server, calls, failed>>

\* Every function begins with LoadConfig; the command line does so in its
\* PersistentPreRun.  Only a registration goes on without a file.
LoadConfig(c, o) ==
    /\ at[c] = "idle" /\ calls < MaxCalls /\ calls' = calls + 1
    /\ \/ program = "app" /\ o \in AppOps
       \/ program = "cli" /\ o \in CliOps /\ mem = Blank /\ \A d \in Callers : at[d] = "idle"
    /\ Readable \/ o \in Registers
    /\ op' = [op EXCEPT ![c] = o]
    /\ Goto(c, IF Readable THEN "load" ELSE "register")
    /\ Copies(c, file, IF Readable THEN Present(file) ELSE <<>>)
    /\ UNCHANGED <<file, mem, program, server, failed>>

\* One group of a decode (LoadConfig) or of an assignment to AppConfig.
Copy(c) ==
    /\ todo[c] # <<>>
    /\ LET g == Head(todo[c]) IN mem' = [mem EXCEPT ![g] = src[c][g]]
    /\ todo' = [todo EXCEPT ![c] = Tail(@)]
    /\ UNCHANGED <<file, program, at, op, src, server, calls, failed>>

Loaded(c) == at[c] = "load" /\ todo[c] = <<>>
NothingToDo(c) == op[c] \in {"Read", "Register"} \/ (op[c] = "RegisterWg" /\ mem.wgKey # 0)

\* The getters, a registered application, a config that carries a WireGuard device.
ReturnLoaded(c) ==
    /\ Loaded(c) /\ NothingToDo(c) /\ Return(c)
    /\ UNCHANGED <<file, mem, program, server, calls, failed>>

\* The others make a request with the identity AppConfig holds by now.
Ask(c) ==
    /\ Loaded(c) /\ ~NothingToDo(c)
    /\ Goto(c, CASE op[c] = "register" -> "register" [] op[c] = "enroll" -> "enroll" [] OTHER -> "ask")
    /\ Copies(c, mem, <<>>)
    /\ UNCHANGED <<file, mem, op, program, server, calls, failed>>

\* A reply that does not arrive: the function returns an error, the server has acted.
Answer(c, heard, place, r, groups) ==
    /\ IF heard THEN Goto(c, place) /\ Copies(c, r, groups) /\ UNCHANGED op ELSE Return(c)
    /\ failed' = (failed \/ ~heard)
    /\ UNCHANGED <<file, mem, program, calls>>

Register(c, heard) ==
    /\ at[c] = "register" /\ Len(devices) < MaxDevices
    /\ devices' = Append(devices, [key |-> 0, license |-> "own"])
    /\ Answer(c, heard, "enroll", [Blank EXCEPT !.id = Len(devices) + 1], <<>>)
    /\ UNCHANGED <<wgDevices, keys>>

\* A fresh key; "enroll" keeps its key unless asked, or unless the server finds
\* it invalid and the user agrees.
KeyChoices(c) == {keys + 1} \cup (IF op[c] = "enroll" THEN {src[c].key} ELSE {})

\* Seeded bug: the record is rebuilt with the key that was loaded before.
EnrolledKeepsOldKey(c, key) ==
    [Blank EXCEPT !.key = IF op[c] = "enroll" THEN src[c].key ELSE key,
                  !.id = src[c].id, !.license = devices[src[c].id].license]

\* The whole record is replaced by a literal without WireGuard fields.
Enrolled(c, key) ==
    [key |-> key, license |-> devices[src[c].id].license, id |-> src[c].id, wgKey |-> 0, wgId |-> 0]

EnrollKey(c, heard) ==
    /\ at[c] = "enroll"
    /\ \E key \in KeyChoices(c) :
        /\ key <= MaxDevices
        /\ keys' = IF key > keys THEN key ELSE keys
        /\ devices' = [devices EXCEPT ![src[c].id].key = key]
        /\ Answer(c, heard, "assign", Enrolled(c, key), Groups)
    /\ UNCHANGED wgDevices

RegisterWithWgKey(c, heard) ==
    /\ at[c] = "ask" /\ op[c] = "RegisterWg" /\ wgDevices < MaxDevices
    /\ wgDevices' = wgDevices + 1
    /\ Answer(c, heard, "assign", [src[c] EXCEPT !.wgKey = wgDevices + 1, !.wgId = wgDevices + 1],
              <<"wgKey", "wgId">>)
    /\ UNCHANGED <<devices, keys>>

NewLicense(c) == IF op[c] = "UpdateLicense" THEN "plus" ELSE ""

\* Seeded bug: the stored license is not kept in sync.
ChangeLicenseUnstored(c, heard) ==
    /\ at[c] = "ask" /\ op[c] \in LicenseOps
    /\ devices' = [devices EXCEPT ![src[c].id].license = NewLicense(c)]
    /\ Answer(c, heard, "assign", src[c], <<>>)
    /\ UNCHANGED <<wgDevices, keys>>

ChangeLicense(c, heard) ==
    /\ at[c] = "ask" /\ op[c] \in LicenseOps
    /\ devices' = [devices EXCEPT ![src[c].id].license = NewLicense(c)]
    /\ Answer(c, heard, "assign", [src[c] EXCEPT !.license = NewLicense(c)], <<"license">>)
    /\ UNCHANGED <<wgDevices, keys>>

\* A request that fails at the server, and GetAccountInfo that is answered.
ApiReturns(c) ==
    /\ at[c] \in {"register", "enroll", "ask"} /\ Return(c)
    /\ UNCHANGED <<file, mem, program, server, calls, failed>>

\* Seeded bug: the record is copied when the request is made, not when it is saved.
CreateFromOldCopy(c) ==
    /\ at[c] = "assign" /\ todo[c] = <<>>
    /\ file' = Blank /\ Goto(c, "write")
    /\ UNCHANGED <<mem, op, src, todo, program, server, calls, failed>>

\* SaveConfig: os.Create truncates the file; then the encoder takes a copy of
\* AppConfig (in the same step: nothing but a decode, which fails, can tell).
Create(c) ==
    /\ at[c] = "assign" /\ todo[c] = <<>>
    /\ file' = Blank /\ Copies(c, mem, <<>>) /\ Goto(c, "write")
    /\ UNCHANGED <<mem, op, program, server, calls, failed>>

CreateFails(c) ==
    /\ at[c] = "assign" /\ todo[c] = <<>> /\ Return(c) /\ failed' = TRUE
    /\ UNCHANGED <<file, mem, program, server, calls>>

Write(c) ==
    /\ at[c] = "write" /\ file' = src[c] /\ Return(c)
    /\ UNCHANGED <<mem, program, server, calls, failed>>

WriteFails(c) ==
    /\ at[c] = "write" /\ Return(c) /\ failed' = TRUE
    /\ UNCHANGED <<file, mem, program, server, calls>>

\* The program ends, in the middle of its calls or not: killed, the command
\* line at its end, or GetAccountInfo dereferencing the list of devices it
\* could not fetch.
Exit ==
    /\ program # "none" /\ program' = "none" /\ mem' = Blank
    /\ at' = [c \in Callers |-> "idle"] /\ op' = op
    /\ src' = [c \in Callers |-> Blank] /\ todo' = [c \in Callers |-> <<>>]
    /\ failed' = (failed \/ \E c \in Callers : at[c] # "idle")
    /\ UNCHANGED <<file, server, calls>>

Answered(c) == \E heard \in BOOLEAN :
    Register(c, heard) \/ EnrollKey(c, heard) \/ RegisterWithWgKey(c, heard) \/ ChangeLicense(c, heard)

Step ==
    \/ \E p \in {"app", "cli"} : Start(p)
    \/ \E c \in Callers :
        \/ \E o \in AppOps \cup CliOps : LoadConfig(c, o)
        \/ Copy(c) \/ ReturnLoaded(c) \/ Ask(c)
        \/ Answered(c) \/ ApiReturns(c)
        \/ Create(c) \/ CreateFails(c) \/ Write(c) \/ WriteFails(c)
    \/ Exit

\* What the histories record of two callers after a step.
Changing(a, c) == a[c] \notin {"idle", "load"}
Meet(kind, a, o, c, d) ==
    CASE kind = "register" -> o[c] = "Register" /\ Changing(a, c)
                              /\ a[d] # "idle" /\ o[d] \notin {"Read", "GetAccountInfo"}
      [] kind = "wg" -> o[c] = "RegisterWg" /\ Changing(a, c) /\ a[d] # "idle" /\ o[d] = "RegisterWg"
      [] kind = "save" -> a[c] = "write" /\ a[d] = "write"

Observe ==
    /\ overlaps' = overlaps \cup {kind \in {"register", "wg", "save"} :
                        \E c, d \in Callers : c # d /\ Meet(kind, at', op', c, d)}
    /\ alone' = {c \in Callers : /\ at'[c] # "idle" /\ (at[c] = "idle" \/ c \in alone)
                                 /\ \A d \in Callers \ {c} : at'[d] = "idle"}

Next == Step /\ Observe
Spec == Init /\ [][Next]_vars

-----------------------------------------------------------------------------
Records == [key : 0 .. MaxDevices, license : {"", "own", "plus"}, id : 0 .. MaxDevices,
            wgKey : 0 .. MaxDevices, wgId : 0 .. MaxDevices]

\* Types.
TypeOK ==
    /\ file \in Records /\ mem \in Records /\ program \in {"none", "app", "cli"}
    /\ at \in [Callers -> {"idle", "load", "register", "enroll", "ask", "assign", "write"}]
    /\ op \in [Callers -> AppOps \cup CliOps] /\ src \in [Callers -> Records]
    /\ \A c \in Callers : Range(todo[c]) \subseteq Range(Groups) /\ Len(todo[c]) <= Len(Groups)
    /\ devices \in Seq([key : 0 .. MaxDevices, license : {"", "own", "plus"}])
    /\ wgDevices \in 0 .. MaxDevices /\ keys \in 0 .. MaxDevices /\ calls \in 0 .. MaxCalls
    /\ overlaps \subseteq {"register", "wg", "save"} /\ alone \subseteq Callers /\ failed \in BOOLEAN

\* The records the file holds or is about to hold.
Durable == (IF Readable THEN {file} ELSE {})
           \cup {src[c] : c \in {d \in Callers : at[d] = "write"}}

\* The key in config.json is the one the server has enrolled for the device in
\* config.json (Register, enroll.go:80-130): whichever decodes, license changes
\* and WireGuard registrations overlapped, copying the same global group by
\* group.  Excepted: a registration that overlapped with another change, a lost
\* reply or a failed save, and an enrolment that is not saved yet.
StoredIdentityWorks ==
    (/\ Readable /\ ~failed /\ "register" \notin overlaps
     /\ \A c \in Callers : at[c] # "idle" => op[c] # "enroll")
        => /\ file.id \in 1 .. Len(devices)
           /\ devices[file.id].key = file.key

\* RegisterWg returns success only with one whole device in the file, or in
\* the record another function is about to write (RegisterWg, SaveConfig):
\* also when license changes and decodes of the older file overlap with it,
\* unless two WireGuard registrations, a registration or two saves overlapped
\* or something has failed.
WgSuccessIsStored ==
    [][\A c \in Callers :
        (/\ op[c] = "RegisterWg" /\ at[c] \in {"load", "write"} /\ at'[c] = "idle"
         /\ program' = program /\ overlaps' = {} /\ ~failed')
            => Durable' # {} /\ \A r \in Durable' : r.wgKey # 0 /\ r.wgKey = r.wgId]_vars

\* A call of UpdateLicense or RemoveLicense that met no other call and reports
\* success leaves in the file the license the server has for the device of the
\* file, whatever failed before (lines 954-985).
LicenseSuccessIsStored ==
    [][\A c \in alone :
        (op[c] \in LicenseOps /\ at[c] = "write" /\ at'[c] = "idle" /\ Readable')
            => file'.license = devices[file'.id].license]_vars

\* No save loses the WireGuard device another call has stored, because all of
\* them write the one AppConfig and a decode leaves absent fields alone.  Only
\* a new registration or enrolment starts without one; two saves at once, or a
\* registration amid other changes, are the exceptions.
StoredWgIsKept ==
    [][(/\ Readable /\ file.wgKey # 0 /\ overlaps' \cap {"register", "save"} = {}
        /\ \A c \in Callers : at'[c] = "write" => op[c] \notin {"Register", "register", "enroll"})
            => \A r \in Durable' : r.wgKey # 0]_vars
================================================================================
