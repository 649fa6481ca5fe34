--------------------------- MODULE ConfigStore_proofs ---------------------------
(***************************************************************************)
(* Proofs about ConfigStore, for any finite set of callers and any number  *)
(* of calls and devices: what the invariant says, what each action does,   *)
(* that these effects keep the invariant part by part, and the theorems.   *)
(***************************************************************************)
EXTENDS ConfigStore, FiniteSetTheorems, SequenceTheorems, TLAPS

Places == {"idle", "load", "register", "enroll", "ask", "assign", "write"}
GroupSet == {"key", "license", "id", "wgKey", "wgId"}
Licenses == {"", "own", "plus"}
Devices == [key : 0 .. MaxDevices, license : Licenses]

\* Types, with what is left to copy as a sequence.
TypeInv ==
    /\ file \in Records /\ mem \in Records /\ program \in {"none", "app", "cli"}
    /\ at \in [Callers -> Places] /\ op \in [Callers -> AppOps \cup CliOps]
    /\ src \in [Callers -> Records] /\ todo \in [Callers -> Seq(GroupSet)]
    /\ \A c \in Callers : Len(todo[c]) <= 5
    /\ devices \in Seq(Devices) /\ Len(devices) <= MaxDevices
    /\ wgDevices \in 0 .. MaxDevices /\ keys \in 0 .. MaxDevices /\ calls \in 0 .. MaxCalls
    /\ failed \in BOOLEAN

\* A step of c: its place, its record and what it has left to copy.
Moves(c, place, r, groups) ==
    /\ at' \in [Callers -> Places] /\ src' \in [Callers -> Records] /\ todo' \in [Callers -> Seq(GroupSet)]
    /\ at'[c] = place /\ src'[c] = r /\ todo'[c] = groups
    /\ \A d \in Callers : d # c => at'[d] = at[d] /\ src'[d] = src[d] /\ todo'[d] = todo[d]

Enrolling == {"Register", "register", "enroll"}
Savers == {"RegisterWg", "UpdateLicense", "RemoveLicense"}
Stages == {"load", "ask", "assign", "write"}

Pending(c) == Range(todo[c])
Real(r) == r.id \in 1 .. Len(devices)
Works(r) == Real(r) /\ devices[r.id].key = r.key
Carried(c, g) == at[c] \in {"load", "ask", "assign"} /\ g \notin Pending(c)

\* What is left to copy belongs to the place and the function of the caller.
TodoFit(c) ==
    /\ at[c] \notin {"load", "assign"} => todo[c] = <<>>
    /\ at[c] = "load" => \A g \in {"wgKey", "wgId"} : g \in Pending(c) => src[c][g] # 0
    /\ (at[c] = "assign" /\ op[c] = "RegisterWg") =>
          (Pending(c) \subseteq {"wgKey", "wgId"} /\ src[c].wgKey # 0 /\ src[c].wgId # 0)
    /\ (at[c] = "assign" /\ op[c] \in LicenseOps) => Pending(c) \subseteq {"license"}

TodoFits == \A c \in Callers : TodoFit(c)

\* Which function is at which place, of which program.
OpFits(c) ==
    /\ at[c] = "register" => op[c] \in Registers
    /\ at[c] = "enroll" => op[c] \in Enrolling
    /\ at[c] = "ask" => op[c] \in Savers \cup {"GetAccountInfo"}
    /\ at[c] \in {"assign", "write"} => op[c] \in Savers \cup Enrolling
    /\ at[c] # "idle" => \/ program = "app" /\ op[c] \in AppOps
                         \/ /\ program = "cli" /\ op[c] \in CliOps
                            /\ \A d \in Callers \ {c} : at[d] = "idle"

OpsFit == \A c \in Callers : OpFits(c)

MeetingsSeen ==
    \A kind \in {"register", "wg", "save"} :
        kind \notin overlaps => \A c, d \in Callers : c # d => ~Meet(kind, at, op, c, d)

\* An identity that a caller works with has been given by the server.
IdFits(c) ==
    /\ at[c] \in Stages \cup {"enroll"} => Real(src[c])
    /\ Carried(c, "id") => Real(mem)

IdsAreReal == (Readable => Real(file)) /\ \A c \in Callers : IdFits(c)

\* A call that has met no other: how far a change of the license has come.
AloneFit(c) ==
    /\ at[c] # "idle" /\ \A d \in Callers \ {c} : at[d] = "idle"
    /\ op[c] \in LicenseOps =>
        /\ at[c] = "ask" => mem.id = src[c].id
        /\ at[c] = "assign" =>
            /\ mem.id = src[c].id /\ devices[src[c].id].license = src[c].license
            /\ Carried(c, "license") => mem.license = src[c].license
        /\ at[c] = "write" => devices[src[c].id].license = src[c].license
    /\ at[c] = "write" => ~Readable

AloneFits == \A c \in alone : AloneFit(c)

WriterFindsBlank == "save" \notin overlaps => \A c \in Callers : at[c] = "write" => ~Readable

WgKept ==
    overlaps \cap {"register", "save"} = {} =>
        \A g \in {"wgKey", "wgId"} : (\E r \in Durable : r[g] # 0) =>
            \A c \in Callers : (op[c] \in Savers /\ Carried(c, g)) => mem[g] # 0

Changes(c) == at[c] \notin {"idle", "load"}

\* While nothing has failed and no registration has met another change:
Good == ~failed /\ "register" \notin overlaps

\* - what a caller copies from works, and AppConfig has what it has copied;
SourcesWork == \A c \in Callers : at[c] \in Stages => Works(src[c])
CopiesFit == \A c \in Callers : \A g \in {"key", "id"} : Carried(c, g) => mem[g] = src[c][g]

\* - the callers, and the file, agree on the identity;
SameIdentity ==
    \A c, d \in Callers :
        (at[c] \in Stages /\ at[d] \in Stages) => (src[d].key = src[c].key /\ src[d].id = src[c].id)
FileAgrees ==
    Readable => \A c \in Callers :
        (at[c] \in Stages /\ op[c] \notin {"register", "enroll"}) => (file.key = src[c].key /\ file.id = src[c].id)

\* - the file works, but for an enrolment that is not saved yet;
FileWorks ==
    (Readable /\ ~(\E c \in Callers : at[c] = "assign" /\ op[c] = "enroll")) => Works(file)

\* - the application registers alone, without a file, and else has one;
RegisterAlone ==
    \A c \in Callers :
        (op[c] = "Register" /\ Changes(c)) => (~Readable /\ \A d \in Callers \ {c} : at[d] = "idle")
AppHasFile ==
    \A c \in Callers :
        (at[c] # "idle" /\ op[c] \in AppOps /\ ~(op[c] = "Register" /\ Changes(c))) => Durable # {}

\* - the command line enrols its key for a new device.
NewDevice ==
    \A c \in Callers : (at[c] = "enroll" /\ op[c] = "register" /\ Readable) => src[c].id # file.id

IdentityOK ==
    /\ SourcesWork /\ CopiesFit /\ SameIdentity /\ FileAgrees /\ FileWorks
    /\ RegisterAlone /\ AppHasFile /\ NewDevice

IdentityFits == Good => IdentityOK

\* The second half of the WireGuard device comes last.
WgIdLast(s) == \A i \in 1 .. Len(s) : s[i] = "wgId" => i = Len(s)
OrderFits == \A c \in Callers : WgIdLast(todo[c])

\* While nothing has failed and no calls that change something have met:
Fine == ~failed /\ overlaps = {}
Registering(c) == op[c] = "RegisterWg" /\ Changes(c)
Enrols(c) == op[c] \in Enrolling /\ at[c] = "assign"

\* - nobody knows another WireGuard device than the last one;
Known(r) == r.wgKey \in {0, wgDevices} /\ r.wgId \in {0, wgDevices}
WgKnown == Known(mem) /\ (\A r \in Durable : Known(r)) /\ \A c \in Callers : at[c] = "load" => Known(src[c])

\* - its halves get into AppConfig, and into a decoded record, in this order;
KeyFirst == (mem.wgKey = 0 /\ mem.wgId # 0) => \E c \in Callers : Enrols(c)
LoaderFits(c) ==
    at[c] = "load" =>
        /\ src[c].wgKey # 0 => ((\A r \in Durable : r.wgKey # 0) /\ (Carried(c, "wgKey") => mem.wgKey # 0))
        /\ src[c].wgKey = 0 => src[c].wgId = 0

\* - the file has it whole, and AppConfig has none that the file has not,
\*   unless one is being registered;
FileWhole ==
    /\ \A r \in Durable : r.wgKey = 0 => r.wgId = 0
    /\ ~(\E c \in Callers : Registering(c)) =>
        /\ \A r \in Durable : r.wgKey = r.wgId
        /\ mem.wgKey # 0 => \A r \in Durable : r.wgKey # 0

\* - how far a WireGuard registration, or an enrolment, has come.
RegistersFit(c) ==
    op[c] = "RegisterWg" =>
        /\ at[c] = "ask" => (mem.wgKey = 0 /\ mem.wgId = 0 /\ \A r \in Durable : r.wgKey = 0)
        /\ at[c] = "assign" =>
            /\ src[c].wgKey = wgDevices /\ src[c].wgId = wgDevices
            /\ \A g \in {"wgKey", "wgId"} : Carried(c, g) => mem[g] = wgDevices
        /\ at[c] = "write" => (src[c].wgKey = wgDevices /\ src[c].wgId = wgDevices /\ wgDevices # 0)
EnrolsFit(c) ==
    Enrols(c) => /\ src[c].wgKey = 0 /\ src[c].wgId = 0
                 /\ \A g \in {"wgKey", "wgId"} : Carried(c, g) => mem[g] = 0

WgOK ==
    /\ WgKnown /\ KeyFirst /\ FileWhole
    /\ \A c \in Callers : LoaderFits(c) /\ RegistersFit(c) /\ EnrolsFit(c)

WgFits == Fine => WgOK

HistoryFits == overlaps \subseteq {"register", "wg", "save"} /\ alone \subseteq Callers

IInv ==
    /\ TypeInv /\ HistoryFits /\ TodoFits /\ OpsFit /\ MeetingsSeen /\ IdsAreReal /\ AloneFits
    /\ WriterFindsBlank /\ WgKept /\ IdentityFits /\ OrderFits /\ WgFits


-----------------------------------------------------------------------------
(* Groups and sequences of groups.                                         *)

LEMMA RangeOfConcat ==
    ASSUME NEW S, NEW s \in Seq(S), NEW t \in Seq(S)
    PROVE  /\ s \o t \in Seq(S) /\ Range(s \o t) = Range(s) \cup Range(t)
           /\ Len(s \o t) = Len(s) + Len(t) /\ Len(s) \in Nat /\ Len(t) \in Nat
<1>1. /\ s \o t \in Seq(S) /\ Len(s \o t) = Len(s) + Len(t)
      /\ \A i \in 1 .. Len(s) + Len(t) :
            (s \o t)[i] = IF i <= Len(s) THEN s[i] ELSE t[i - Len(s)]
  BY ConcatProperties
<1>2. DOMAIN s = 1 .. Len(s) /\ DOMAIN t = 1 .. Len(t) /\ DOMAIN (s \o t) = 1 .. Len(s) + Len(t)
      /\ Len(s) \in Nat /\ Len(t) \in Nat
  BY <1>1, LenProperties
<1>3. ASSUME NEW x \in Range(s) PROVE x \in Range(s \o t)
  <2>1. PICK i \in 1 .. Len(s) : x = s[i]
    BY <1>2, <1>3 DEF Range
  <2>2. i \in 1 .. Len(s) + Len(t) /\ (s \o t)[i] = x
    BY <1>1, <1>2, <2>1
  <2> QED
    BY <1>2, <2>2 DEF Range
<1>4. ASSUME NEW x \in Range(t) PROVE x \in Range(s \o t)
  <2>1. PICK i \in 1 .. Len(t) : x = t[i]
    BY <1>2, <1>4 DEF Range
  <2>2. i + Len(s) \in 1 .. Len(s) + Len(t) /\ (s \o t)[i + Len(s)] = x
    BY <1>1, <1>2, <2>1
  <2> QED
    BY <1>2, <2>2 DEF Range
<1>5. ASSUME NEW x \in Range(s \o t) PROVE x \in Range(s) \cup Range(t)
  <2>1. PICK i \in 1 .. Len(s) + Len(t) : x = (s \o t)[i]
    BY <1>2, <1>5 DEF Range
  <2>2. CASE i <= Len(s)
    BY <1>1, <1>2, <2>1, <2>2 DEF Range
  <2>3. CASE ~(i <= Len(s))
    <3>1. i - Len(s) \in 1 .. Len(t) /\ x = t[i - Len(s)]
      BY <1>1, <1>2, <2>1, <2>3
    <3> QED
      BY <1>2, <3>1 DEF Range
  <2> QED
    BY <2>2, <2>3
<1> QED
  BY <1>1, <1>2, <1>3, <1>4, <1>5

\* One group less to copy.
LEMMA RangeOfTail ==
    ASSUME NEW S, NEW s \in Seq(S), s # <<>>
    PROVE  /\ Head(s) \in S /\ Tail(s) \in Seq(S) /\ Len(Tail(s)) < Len(s)
           /\ Range(s) = {Head(s)} \cup Range(Tail(s))
<1>1. /\ Head(s) \in S /\ Tail(s) \in Seq(S) /\ Len(Tail(s)) = Len(s) - 1
      /\ \A i \in 1 .. Len(Tail(s)) : Tail(s)[i] = s[i + 1]
  BY HeadTailProperties
<1>2. Len(s) \in Nat /\ Len(s) # 0
  BY EmptySeq, LenProperties
<1>3. DOMAIN s = 1 .. Len(s) /\ DOMAIN Tail(s) = 1 .. Len(s) - 1 /\ Head(s) = s[1]
  BY <1>1, <1>2, LenProperties
<1>4. ASSUME NEW x \in Range(s) PROVE x \in {Head(s)} \cup Range(Tail(s))
  <2>1. PICK i \in 1 .. Len(s) : x = s[i]
    BY <1>3, <1>4 DEF Range
  <2>2. CASE i = 1
    BY <1>3, <2>1, <2>2
  <2>3. CASE i # 1
    <3>1. i - 1 \in 1 .. Len(s) - 1 /\ Tail(s)[i - 1] = x
      BY <1>1, <1>2, <2>1, <2>3
    <3> QED
      BY <1>3, <3>1 DEF Range
  <2> QED
    BY <2>2, <2>3
<1>5. Head(s) \in Range(s)
  BY <1>2, <1>3 DEF Range
<1>6. ASSUME NEW x \in Range(Tail(s)) PROVE x \in Range(s)
  <2>1. PICK i \in 1 .. Len(s) - 1 : x = Tail(s)[i]
    BY <1>3, <1>6 DEF Range
  <2>2. i + 1 \in 1 .. Len(s) /\ s[i + 1] = x
    BY <1>1, <1>2, <2>1
  <2> QED
    BY <1>3, <2>2 DEF Range
<1> QED
  BY <1>1, <1>2, <1>4, <1>5, <1>6

LEMMA RangesOfGroups ==
    /\ <<>> \in Seq(GroupSet) /\ Range(<<>>) = {} /\ Len(<<>>) = 0
    /\ \A g \in GroupSet : <<g>> \in Seq(GroupSet) /\ Range(<<g>>) = {g} /\ Len(<<g>>) = 1
    /\ Groups \in Seq(GroupSet) /\ Range(Groups) = GroupSet /\ Len(Groups) = 5
    /\ <<"key", "license", "id">> \in Seq(GroupSet)
    /\ Range(<<"key", "license", "id">>) = {"key", "license", "id"}
    /\ <<"wgKey", "wgId">> \in Seq(GroupSet) /\ Range(<<"wgKey", "wgId">>) = {"wgKey", "wgId"}
<1>1. <<>> \in Seq(GroupSet) /\ Range(<<>>) = {} /\ Len(<<>>) = 0
  BY DEF Range
<1>2. \A g \in GroupSet : <<g>> \in Seq(GroupSet) /\ Range(<<g>>) = {g} /\ Len(<<g>>) = 1
  BY DEF Range
<1>3. Groups \in Seq(GroupSet) /\ Len(Groups) = 5 /\ Range(Groups) = GroupSet
  BY DEF Range, Groups, GroupSet
<1>4. /\ <<"key", "license", "id">> \in Seq(GroupSet)
      /\ Range(<<"key", "license", "id">>) = {"key", "license", "id"}
  BY DEF Range, GroupSet
<1>5. <<"wgKey", "wgId">> \in Seq(GroupSet) /\ Range(<<"wgKey", "wgId">>) = {"wgKey", "wgId"}
  BY DEF Range, GroupSet
<1> QED
  BY <1>1, <1>2, <1>3, <1>4, <1>5

-----------------------------------------------------------------------------
(* What the steps do, variable by variable.                                *)

LEMMA BlankIsRecord ==
    /\ Blank \in Records
    /\ Blank.key = 0 /\ Blank.id = 0 /\ Blank.wgKey = 0 /\ Blank.wgId = 0 /\ Blank.license = ""
<1>1. 0 \in 0 .. MaxDevices
  BY ConfigStoreAssumption
<1> QED
  BY <1>1 DEF Blank, Records

LEMMA MoveFacts ==
    ASSUME TypeInv, NEW c \in Callers, NEW place \in Places, NEW r \in Records,
           NEW groups \in Seq(GroupSet), Goto(c, place), Copies(c, r, groups)
    PROVE  Moves(c, place, r, groups)
<1>1. at' \in [Callers -> Places] /\ at'[c] = place /\ \A d \in Callers : d # c => at'[d] = at[d]
  BY DEF TypeInv, Goto
<1>2. src' \in [Callers -> Records] /\ src'[c] = r /\ \A d \in Callers : d # c => src'[d] = src[d]
  <2> HIDE DEF Records
  <2> QED
    BY DEF TypeInv, Copies
<1>3. /\ todo' \in [Callers -> Seq(GroupSet)] /\ todo'[c] = groups
      /\ \A d \in Callers : d # c => todo'[d] = todo[d]
  BY DEF TypeInv, Copies
<1> QED
  BY <1>1, <1>2, <1>3 DEF Moves

LEMMA ReturnFacts ==
    ASSUME TypeInv, NEW c \in Callers, Return(c)
    PROVE  Moves(c, "idle", Blank, <<>>) /\ op' = op
BY MoveFacts, BlankIsRecord, RangesOfGroups DEF Return, Places

\* The part of the types that only the callers' own variables have.
LEMMA MovesKeepTypes ==
    ASSUME TypeInv, NEW c \in Callers, NEW place, NEW r, NEW groups, Len(groups) <= 5,
           Moves(c, place, r, groups), op' \in [Callers -> AppOps \cup CliOps],
           file' \in Records, mem' \in Records, program' \in {"none", "app", "cli"},
           devices' \in Seq(Devices), Len(devices') <= MaxDevices,
           wgDevices' \in 0 .. MaxDevices, keys' \in 0 .. MaxDevices, calls' \in 0 .. MaxCalls,
           failed' \in BOOLEAN
    PROVE  TypeInv'
<1>1. ASSUME NEW d \in Callers PROVE Len(todo'[d]) <= 5
  BY DEF TypeInv, Moves
<1> QED
  BY <1>1 DEF TypeInv, Moves

\* A field of a record is replaced.
Put(r, g, v) == [r EXCEPT ![g] = v]

LEMMA FieldFacts ==
    ASSUME NEW r \in Records, NEW s \in Records, NEW g \in GroupSet
    PROVE  /\ Put(r, g, s[g]) \in Records /\ Put(r, g, s[g])[g] = s[g]
           /\ \A h \in GroupSet : h # g => Put(r, g, s[g])[h] = r[h]
<1>1. CASE g = "key"
  BY <1>1 DEF Records, GroupSet, Put
<1>2. CASE g = "license"
  BY <1>2 DEF Records, GroupSet, Put
<1>3. CASE g = "id"
  BY <1>3 DEF Records, GroupSet, Put
<1>4. CASE g = "wgKey"
  BY <1>4 DEF Records, GroupSet, Put
<1>5. CASE g = "wgId"
  BY <1>5 DEF Records, GroupSet, Put
<1> QED
  BY <1>1, <1>2, <1>3, <1>4, <1>5 DEF GroupSet

LEMMA TailOrder ==
    ASSUME NEW s \in Seq(GroupSet), s # <<>>, WgIdLast(s)
    PROVE  WgIdLast(Tail(s)) /\ (Head(s) = "wgId" => Tail(s) = <<>>)
<1>1. /\ Tail(s) \in Seq(GroupSet) /\ Len(Tail(s)) = Len(s) - 1
      /\ \A i \in 1 .. Len(Tail(s)) : Tail(s)[i] = s[i + 1]
  BY HeadTailProperties
<1>2. Len(s) \in Nat /\ Len(s) # 0 /\ Head(s) = s[1]
  BY EmptySeq, LenProperties
<1> DEFINE n == Len(s)
           t == Tail(s)
<1>3. /\ n \in Nat /\ n # 0 /\ Len(t) = n - 1 /\ t \in Seq(GroupSet)
      /\ \A i \in 1 .. n - 1 : t[i] = s[i + 1]
      /\ \A i \in 1 .. n : s[i] = "wgId" => i = n
  BY <1>1, <1>2 DEF WgIdLast
<1> HIDE DEF n, t
<1>4. \A i \in 1 .. n - 1 : t[i] = "wgId" => i = n - 1
  <2>1. SUFFICES ASSUME NEW i \in 1 .. n - 1, t[i] = "wgId" PROVE i = n - 1
    OBVIOUS
  <2>2. i + 1 \in 1 .. n /\ s[i + 1] = "wgId"
    BY <1>3, <2>1
  <2> QED
    BY <1>3, <2>2
<1>5. WgIdLast(t)
  BY <1>3, <1>4 DEF WgIdLast
<1>6. ASSUME Head(s) = "wgId" PROVE t = <<>>
  <2>1. n = 1
    <3>1. 1 \in 1 .. n /\ s[1] = "wgId"
      BY <1>2, <1>3, <1>6
    <3> QED
      BY <1>3, <3>1
  <2>2. Len(t) = 0
    BY <1>3, <2>1
  <2> QED
    BY <1>3, <2>2, EmptySeq
<1> QED
  BY <1>5, <1>6 DEF t

LEMMA ConcatOrder ==
    ASSUME NEW s \in Seq(GroupSet), NEW t \in Seq(GroupSet), "wgId" \notin Range(s), WgIdLast(t)
    PROVE  WgIdLast(s \o t)
<1>1. /\ Len(s \o t) = Len(s) + Len(t)
      /\ \A i \in 1 .. Len(s) + Len(t) :
            (s \o t)[i] = IF i <= Len(s) THEN s[i] ELSE t[i - Len(s)]
  BY ConcatProperties
<1>2. Len(s) \in Nat /\ Len(t) \in Nat /\ \A i \in 1 .. Len(s) : s[i] # "wgId"
  BY LenProperties DEF Range
<1>3. ASSUME NEW i \in 1 .. Len(s) + Len(t), (s \o t)[i] = "wgId" PROVE i = Len(s) + Len(t)
  <2>1. ~(i <= Len(s))
    BY <1>1, <1>2, <1>3
  <2>2. i - Len(s) \in 1 .. Len(t) /\ t[i - Len(s)] = "wgId"
    BY <1>1, <1>2, <1>3, <2>1
  <2>3. i - Len(s) = Len(t)
    BY <2>2 DEF WgIdLast
  <2> QED
    BY <1>2, <2>3
<1> QED
  BY <1>1, <1>3 DEF WgIdLast

LEMMA PresentFacts ==
    ASSUME NEW r \in Records
    PROVE  /\ Present(r) \in Seq(GroupSet) /\ Len(Present(r)) <= 5 /\ Present(r) # <<>> /\ WgIdLast(Present(r))
           /\ Range(Present(r)) = {"key", "license", "id"}
                \cup (IF r.wgKey # 0 THEN {"wgKey"} ELSE {}) \cup (IF r.wgId # 0 THEN {"wgId"} ELSE {})
<1> DEFINE b == <<"key", "license", "id">>
           k == IF r.wgKey # 0 THEN <<"wgKey">> ELSE <<>>
           i == IF r.wgId # 0 THEN <<"wgId">> ELSE <<>>
<1>1. b \in Seq(GroupSet) /\ Range(b) = {"key", "license", "id"} /\ Len(b) = 3
  BY RangesOfGroups
<1>2. k \in Seq(GroupSet) /\ Range(k) = (IF r.wgKey # 0 THEN {"wgKey"} ELSE {}) /\ Len(k) <= 1
  <2>1. CASE r.wgKey # 0
    <3>1. k = <<"wgKey">> /\ "wgKey" \in GroupSet
      BY <2>1 DEF GroupSet
    <3> HIDE DEF k
    <3>2. k \in Seq(GroupSet) /\ Range(k) = {"wgKey"} /\ Len(k) = 1
      BY <3>1, RangesOfGroups
    <3> QED
      BY <2>1, <3>2
  <2>2. CASE r.wgKey = 0
    <3>1. k = <<>>
      BY <2>2
    <3> HIDE DEF k
    <3>2. k \in Seq(GroupSet) /\ Range(k) = {} /\ Len(k) = 0
      BY <3>1, RangesOfGroups
    <3> QED
      BY <2>2, <3>2
  <2> QED
    BY <2>1, <2>2
<1>3. i \in Seq(GroupSet) /\ Range(i) = (IF r.wgId # 0 THEN {"wgId"} ELSE {}) /\ Len(i) <= 1
  <2>1. CASE r.wgId # 0
    <3>1. i = <<"wgId">> /\ "wgId" \in GroupSet
      BY <2>1 DEF GroupSet
    <3> HIDE DEF i
    <3>2. i \in Seq(GroupSet) /\ Range(i) = {"wgId"} /\ Len(i) = 1
      BY <3>1, RangesOfGroups
    <3> QED
      BY <2>1, <3>2
  <2>2. CASE r.wgId = 0
    <3>1. i = <<>>
      BY <2>2
    <3> HIDE DEF i
    <3>2. i \in Seq(GroupSet) /\ Range(i) = {} /\ Len(i) = 0
      BY <3>1, RangesOfGroups
    <3> QED
      BY <2>2, <3>2
  <2> QED
    BY <2>1, <2>2
<1>4. Present(r) = b \o k \o i
  BY DEF Present
<1> HIDE DEF b, k, i
<1>5. /\ b \o k \in Seq(GroupSet) /\ Range(b \o k) = Range(b) \cup Range(k)
      /\ Len(b \o k) = Len(b) + Len(k) /\ Len(b) \in Nat /\ Len(k) \in Nat
  BY <1>1, <1>2, RangeOfConcat
<1> DEFINE bk == b \o k
<1> HIDE DEF bk
<1>9. bk \in Seq(GroupSet) /\ bk = b \o k
  BY <1>5 DEF bk
<1>6. /\ bk \o i \in Seq(GroupSet) /\ Range(bk \o i) = Range(bk) \cup Range(i)
      /\ Len(bk \o i) = Len(bk) + Len(i) /\ Len(i) \in Nat
  <2>1. bk \in Seq(GroupSet) /\ i \in Seq(GroupSet)
    BY <1>3, <1>9
  <2> QED
    BY <2>1, RangeOfConcat
<1>10. Present(r) = bk \o i
  BY <1>4, <1>9
<1>8. Len(bk \o i) <= 5
  BY <1>1, <1>2, <1>3, <1>5, <1>6, <1>9
<1>11. Range(bk) = Range(b) \cup Range(k)
  BY <1>5, <1>9
<1>7. Present(r) # <<>>
  <2>1. "key" \in Range(Present(r)) /\ Range(<<>>) = {}
    BY <1>1, <1>6, <1>10, <1>11, RangesOfGroups
  <2> QED
    BY <2>1
<1>12. WgIdLast(bk \o i)
  <2>1. "wgId" \notin Range(bk)
    BY <1>1, <1>2, <1>11
  <2>2. WgIdLast(i)
    BY <1>3, <1>6 DEF WgIdLast
  <2> QED
    BY <1>3, <1>9, <2>1, <2>2, ConcatOrder
<1> QED
  BY <1>1, <1>2, <1>3, <1>6, <1>7, <1>8, <1>10, <1>11, <1>12

\* A device of the server is changed.
LEMMA KeyFacts ==
    ASSUME NEW s \in Seq(Devices), NEW i \in 1 .. Len(s), NEW k \in 0 .. MaxDevices
    PROVE  LET t == [s EXCEPT ![i].key = k]
           IN  /\ t \in Seq(Devices) /\ Len(t) = Len(s) /\ t[i].key = k /\ t[i].license = s[i].license
               /\ \A j \in 1 .. Len(s) : j # i => t[j] = s[j]
<1> DEFINE e == [s[i] EXCEPT !.key = k]
           t == [s EXCEPT ![i] = e]
<1>1. s[i] \in Devices
  BY ElementOfSeq
<1>2. e \in Devices /\ e.key = k /\ e.license = s[i].license
  BY <1>1 DEF Devices
<1> HIDE DEF e
<1>3. /\ t \in Seq(Devices) /\ Len(t) = Len(s) /\ t[i] = e
      /\ \A j \in 1 .. Len(s) : j # i => t[j] = s[j]
  <2> HIDE DEF t
  <2>1. t = [s EXCEPT ![i] = e]
    BY DEF t
  <2> HIDE DEF Devices
  <2> QED
    BY <1>2, <2>1, ExceptSeq
<1>4. t = [s EXCEPT ![i].key = k]
  BY DEF e
<1> QED
  BY <1>2, <1>3, <1>4

Relicensed(s, i, k) == [s EXCEPT ![i].license = k]

LEMMA LicenseFacts ==
    ASSUME NEW s \in Seq(Devices), NEW i \in 1 .. Len(s), NEW k \in Licenses
    PROVE  LET t == Relicensed(s, i, k)
           IN  /\ t \in Seq(Devices) /\ Len(t) = Len(s) /\ t[i].license = k /\ t[i].key = s[i].key
               /\ \A j \in 1 .. Len(s) : j # i => t[j] = s[j]
<1> DEFINE e == [s[i] EXCEPT !.license = k]
           t == [s EXCEPT ![i] = e]
<1>1. s[i] \in Devices
  BY ElementOfSeq
<1>2. e \in Devices /\ e.license = k /\ e.key = s[i].key
  BY <1>1 DEF Devices
<1> HIDE DEF e
<1>3. /\ t \in Seq(Devices) /\ Len(t) = Len(s) /\ t[i] = e
      /\ \A j \in 1 .. Len(s) : j # i => t[j] = s[j]
  <2> HIDE DEF t
  <2>1. t = [s EXCEPT ![i] = e]
    BY DEF t
  <2> HIDE DEF Devices
  <2> QED
    BY <1>2, <2>1, ExceptSeq
<1>4. t = Relicensed(s, i, k)
  BY DEF e, Relicensed
<1> QED
  BY <1>2, <1>3, <1>4

\* A device is added.
LEMMA AppendFacts ==
    ASSUME NEW s \in Seq(Devices)
    PROVE  LET t == Append(s, [key |-> 0, license |-> "own"])
           IN  /\ t \in Seq(Devices) /\ Len(t) = Len(s) + 1
               /\ \A j \in 1 .. Len(s) : t[j] = s[j]
<1> DEFINE e == [key |-> 0, license |-> "own"]
<1>1. e \in Devices
  <2>1. 0 \in 0 .. MaxDevices
    BY ConfigStoreAssumption
  <2> QED
    BY <2>1 DEF Devices, Licenses
<1> HIDE DEF e
<1>2. /\ Append(s, e) \in Seq(Devices) /\ Len(Append(s, e)) = Len(s) + 1
      /\ \A j \in 1 .. Len(s) : Append(s, e)[j] = s[j]
  <2> HIDE DEF Devices
  <2> QED
    BY <1>1, AppendProperties
<1> QED
  BY <1>2 DEF e

\* The record an enrolment makes.
LEMMA EnrolledFacts ==
    ASSUME TypeInv, NEW c \in Callers, Real(src[c]), NEW key \in 0 .. MaxDevices
    PROVE  LET r == Enrolled(c, key)
           IN  /\ r \in Records /\ r.key = key /\ r.id = src[c].id
               /\ r.license = devices[src[c].id].license /\ r.wgKey = 0 /\ r.wgId = 0
<1>1. src[c] \in Records /\ src[c].id \in 0 .. MaxDevices
  BY DEF TypeInv, Records
<1>2. devices[src[c].id] \in Devices
  <2> HIDE DEF Devices
  <2> QED
    BY ElementOfSeq DEF TypeInv, Real
<1>3. devices[src[c].id].license \in Licenses
  BY <1>2 DEF Devices
<1> DEFINE l == devices[src[c].id].license
           i == src[c].id
<1>4. Enrolled(c, key) = [key |-> key, license |-> l, id |-> i, wgKey |-> 0, wgId |-> 0]
  BY DEF Enrolled
<1> HIDE DEF l, i
<1>5. l \in Licenses /\ i \in 0 .. MaxDevices /\ 0 \in 0 .. MaxDevices
  BY <1>1, <1>3, ConfigStoreAssumption DEF l, i
<1> DEFINE r == [key |-> key, license |-> l, id |-> i, wgKey |-> 0, wgId |-> 0]
<1>6. r \in Records
  BY <1>5 DEF Records, Licenses
<1>7. r.key = key /\ r.id = i /\ r.license = l /\ r.wgKey = 0 /\ r.wgId = 0
  OBVIOUS
<1>8. Enrolled(c, key) = r
  BY <1>4
<1> QED
  BY <1>6, <1>7, <1>8 DEF l, i

Started ==
    /\ program = "none" /\ program' \in {"app", "cli"}
    /\ UNCHANGED <<file, mem, at, op, src, todo, devices, wgDevices, failed>>

Entered(c, o) ==
    /\ at[c] = "idle" /\ o \in AppOps \cup CliOps
    /\ \/ program = "app" /\ o \in AppOps
       \/ program = "cli" /\ o \in CliOps /\ \A d \in Callers : at[d] = "idle"
    /\ op'[c] = o /\ \A d \in Callers : d # c => op'[d] = op[d]
    /\ \/ Readable /\ Moves(c, "load", file, Present(file))
       \/ ~Readable /\ o \in Registers /\ Moves(c, "register", file, <<>>)
    /\ UNCHANGED <<file, mem, program, devices, wgDevices, failed>>

Copied(c, g) ==
    /\ at[c] \in {"load", "assign"} /\ g \in GroupSet /\ Pending(c) = {g} \cup Range(todo'[c])
    /\ todo[c] # <<>> /\ g = Head(todo[c]) /\ Moves(c, at[c], src[c], Tail(todo[c]))
    /\ mem'[g] = src[c][g] /\ \A h \in GroupSet : h # g => mem'[h] = mem[h]
    /\ UNCHANGED <<file, op, program, devices, wgDevices, failed>>

Asked(c, place) ==
    /\ at[c] = "load" /\ todo[c] = <<>> /\ Moves(c, place, mem, <<>>)
    /\ op[c] = "RegisterWg" => mem.wgKey = 0
    /\ \/ op[c] = "register" /\ place = "register"
       \/ op[c] = "enroll" /\ place = "enroll"
       \/ op[c] \in Savers \cup {"GetAccountInfo"} /\ place = "ask"
    /\ UNCHANGED <<file, mem, op, program, devices, wgDevices, failed>>

\* The caller is done, and the file and AppConfig are as they were.
Left(c) ==
    /\ at[c] # "idle" /\ Moves(c, "idle", Blank, <<>>)
    /\ Len(devices) <= Len(devices')
    /\ failed' \/ (failed' = failed /\ devices' = devices /\ wgDevices' = wgDevices)
    /\ at[c] \in {"assign", "write"} => failed'
    /\ (at[c] = "load" /\ op[c] = "RegisterWg") => (failed' \/ mem.wgKey # 0)
    /\ UNCHANGED <<file, mem, op, program>>

Registered(c) ==
    /\ at[c] = "register" /\ \E r \in Records : r.id = Len(devices) + 1 /\ Moves(c, "enroll", r, <<>>)
    /\ Len(devices') = Len(devices) + 1 /\ \A i \in 1 .. Len(devices) : devices'[i] = devices[i]
    /\ UNCHANGED <<file, mem, op, program, wgDevices, failed>>

KeyStored(c, key) ==
    /\ at[c] = "enroll" /\ Moves(c, "assign", Enrolled(c, key), Groups)
    /\ src'[c].key = key /\ src'[c].id = src[c].id /\ src'[c].wgKey = 0 /\ src'[c].wgId = 0
    /\ devices'[src[c].id].key = key /\ Len(devices') = Len(devices)
    /\ \A i \in 1 .. Len(devices) : i # src[c].id => devices'[i] = devices[i]
    /\ UNCHANGED <<file, mem, op, program, wgDevices, failed>>

WgAdded(c) ==
    /\ at[c] = "ask" /\ op[c] = "RegisterWg"
    /\ \E r \in Records :
        /\ r.key = src[c].key /\ r.id = src[c].id /\ r.license = src[c].license
        /\ r.wgKey = wgDevices + 1 /\ r.wgId = wgDevices + 1
        /\ Moves(c, "assign", r, <<"wgKey", "wgId">>)
    /\ wgDevices' = wgDevices + 1
    /\ UNCHANGED <<file, mem, op, program, devices, failed>>

LicenseSet(c) ==
    /\ at[c] = "ask" /\ op[c] \in LicenseOps
    /\ \E r \in Records :
        /\ r.key = src[c].key /\ r.id = src[c].id /\ r.wgKey = src[c].wgKey /\ r.wgId = src[c].wgId
        /\ r.license = NewLicense(c) /\ Moves(c, "assign", r, <<"license">>)
    /\ devices'[src[c].id].license = NewLicense(c) /\ Len(devices') = Len(devices)
    /\ \A i \in 1 .. Len(devices) : devices'[i].key = devices[i].key
    /\ UNCHANGED <<file, mem, op, program, wgDevices, failed>>

Created(c) ==
    /\ at[c] = "assign" /\ todo[c] = <<>> /\ Moves(c, "write", mem, <<>>) /\ file' = Blank
    /\ UNCHANGED <<mem, op, program, devices, wgDevices, failed>>

Written(c) ==
    /\ at[c] = "write" /\ Moves(c, "idle", Blank, <<>>) /\ file' = src[c]
    /\ UNCHANGED <<mem, op, program, devices, wgDevices, failed>>

Ended ==
    /\ at' = [c \in Callers |-> "idle"] /\ src' = [c \in Callers |-> Blank]
    /\ todo' = [c \in Callers |-> <<>>] /\ mem' = Blank /\ program' = "none"
    /\ failed' = (failed \/ \E c \in Callers : at[c] # "idle")
    /\ UNCHANGED <<file, op, devices, wgDevices>>

LEMMA StartFacts ==
    ASSUME TypeInv, NEW p \in {"app", "cli"}, Start(p)
    PROVE  Started /\ TypeInv'
BY DEF TypeInv, Start, Started, local, server

LEMMA LoadConfigFacts ==
    ASSUME TypeInv, NEW c \in Callers, NEW o \in AppOps \cup CliOps, LoadConfig(c, o)
    PROVE  Entered(c, o) /\ TypeInv'
<1> DEFINE groups == IF Readable THEN Present(file) ELSE <<>>
           place == IF Readable THEN "load" ELSE "register"
<1>1. file \in Records /\ Present(file) \in Seq(GroupSet) /\ Len(Present(file)) <= 5
  BY PresentFacts DEF TypeInv
<1>2. groups \in Seq(GroupSet) /\ Len(groups) <= 5
  BY <1>1, RangesOfGroups
<1>3. place \in Places
  BY DEF Places
<1>4. Goto(c, place) /\ Copies(c, file, groups)
  BY DEF LoadConfig
<1>5. /\ op' \in [Callers -> AppOps \cup CliOps] /\ op'[c] = o
      /\ \A d \in Callers : d # c => op'[d] = op[d]
  BY DEF LoadConfig, TypeInv
<1>6. /\ UNCHANGED <<file, mem, program, devices, wgDevices, keys, failed>> /\ calls' \in 0 .. MaxCalls
  <2>1. calls \in 0 .. MaxCalls /\ calls < MaxCalls /\ calls' = calls + 1 /\ MaxCalls \in Nat
    BY ConfigStoreAssumption DEF LoadConfig, TypeInv
  <2>2. calls' \in 0 .. MaxCalls
    BY <2>1
  <2> QED
    BY <2>2 DEF LoadConfig, server
<1>7. Moves(c, place, file, groups)
  <2> HIDE DEF place, groups
  <2> QED
    BY <1>1, <1>2, <1>3, <1>4, MoveFacts
<1>8. TypeInv'
  <2> HIDE DEF place, groups
  <2> QED
    BY <1>2, <1>5, <1>6, <1>7, MovesKeepTypes DEF TypeInv
<1>9. /\ at[c] = "idle" /\ (Readable \/ o \in Registers)
      /\ \/ program = "app" /\ o \in AppOps
         \/ program = "cli" /\ o \in CliOps /\ \A d \in Callers : at[d] = "idle"
  BY DEF LoadConfig
<1>10. \/ Readable /\ Moves(c, "load", file, Present(file))
       \/ ~Readable /\ o \in Registers /\ Moves(c, "register", file, <<>>)
  BY <1>7, <1>9
<1> QED
  BY <1>5, <1>6, <1>8, <1>9, <1>10 DEF Entered

LEMMA CopyFacts ==
    ASSUME TypeInv, TodoFits, NEW c \in Callers, Copy(c)
    PROVE  (\E g \in GroupSet : Copied(c, g)) /\ TypeInv'
<1> DEFINE g == Head(todo[c])
<1>1. todo[c] \in Seq(GroupSet) /\ todo[c] # <<>>
  BY DEF TypeInv, Copy
<1>2. /\ g \in GroupSet /\ Tail(todo[c]) \in Seq(GroupSet) /\ Len(Tail(todo[c])) < Len(todo[c])
      /\ Pending(c) = {g} \cup Range(Tail(todo[c]))
  BY <1>1, RangeOfTail DEF Pending
<1>3. mem' = [mem EXCEPT ![g] = src[c][g]] /\ todo' = [todo EXCEPT ![c] = Tail(@)]
      /\ UNCHANGED <<file, program, at, op, src, devices, wgDevices, keys, failed, calls>>
  BY DEF Copy, server
<1>4. /\ mem' \in Records /\ mem'[g] = src[c][g]
      /\ \A h \in GroupSet : h # g => mem'[h] = mem[h]
  <2> HIDE DEF g
  <2> DEFINE s == src[c]
  <2>1. mem \in Records /\ s \in Records /\ mem' = Put(mem, g, s[g])
    BY <1>3 DEF TypeInv, Put
  <2> HIDE DEF s
  <2>2. mem' \in Records /\ mem'[g] = s[g] /\ \A h \in GroupSet : h # g => mem'[h] = mem[h]
    <3>1. g \in GroupSet
      BY <1>2
    <3> QED
      BY <2>1, <3>1, FieldFacts
  <2> QED
    BY <2>2 DEF s
<1>5. Moves(c, at[c], src[c], Tail(todo[c]))
  BY <1>2, <1>3 DEF TypeInv, Moves
<1>6. Len(Tail(todo[c])) <= 5
  <2>1. Len(todo[c]) <= 5 /\ Len(todo[c]) \in Nat /\ Len(Tail(todo[c])) \in Nat
    BY <1>1, <1>2, LenProperties DEF TypeInv
  <2> QED
    BY <1>2, <2>1
<1>7. TypeInv'
  <2>1. op' \in [Callers -> AppOps \cup CliOps] /\ file' \in Records /\ program' \in {"none", "app", "cli"}
        /\ devices' \in Seq(Devices) /\ Len(devices') <= MaxDevices
        /\ wgDevices' \in 0 .. MaxDevices /\ keys' \in 0 .. MaxDevices /\ calls' \in 0 .. MaxCalls
        /\ failed' \in BOOLEAN
    BY <1>3 DEF TypeInv
  <2> QED
    BY <1>4, <1>5, <1>6, <2>1, MovesKeepTypes
<1>8. at[c] \in {"load", "assign"}
  BY <1>1 DEF TodoFits, TodoFit
<1>9. todo'[c] = Tail(todo[c])
  BY <1>5 DEF Moves
<1>10. Copied(c, g)
  <2>1. g = Head(todo[c])
    OBVIOUS
  <2> HIDE DEF g
  <2> QED
    BY <2>1, <1>1, <1>2, <1>3, <1>4, <1>5, <1>8, <1>9 DEF Copied
<1> QED
  BY <1>2, <1>7, <1>10

LEMMA AskFacts ==
    ASSUME TypeInv, NEW c \in Callers, Ask(c)
    PROVE  (\E place \in Places : Asked(c, place)) /\ TypeInv'
<1> DEFINE place == CASE op[c] = "register" -> "register" [] op[c] = "enroll" -> "enroll" [] OTHER -> "ask"
<1>1. /\ \/ op[c] = "register" /\ place = "register"
         \/ op[c] = "enroll" /\ place = "enroll"
         \/ op[c] \in Savers \cup {"GetAccountInfo"} /\ place = "ask"
      /\ op[c] = "RegisterWg" => mem.wgKey = 0
      /\ place \in Places
  <2>1. op[c] \in AppOps \cup CliOps /\ op[c] \notin {"Read", "Register"}
        /\ (op[c] = "RegisterWg" => mem.wgKey = 0)
    BY DEF TypeInv, Ask, NothingToDo
  <2>2. CASE op[c] = "register"
    BY <2>2 DEF Places
  <2>3. CASE op[c] = "enroll"
    BY <2>3 DEF Places
  <2>4. CASE op[c] \notin {"register", "enroll"}
    BY <2>1, <2>4 DEF Places, Savers, AppOps, CliOps
  <2> QED
    BY <2>1, <2>2, <2>3, <2>4
<1>2. Goto(c, place) /\ Copies(c, mem, <<>>) /\ at[c] = "load" /\ todo[c] = <<>>
      /\ UNCHANGED <<file, mem, op, program, devices, wgDevices, keys, calls, failed>>
  BY DEF Ask, server, Loaded
<1> HIDE DEF place
<1>3. Moves(c, place, mem, <<>>)
  BY <1>1, <1>2, MoveFacts, RangesOfGroups DEF TypeInv
<1>4. TypeInv'
  BY <1>2, <1>3, MovesKeepTypes, RangesOfGroups DEF TypeInv
<1> QED
  BY <1>1, <1>2, <1>3, <1>4 DEF Asked

\* A caller that is done.
LEMMA LeftFacts ==
    ASSUME TypeInv, NEW c \in Callers, at[c] # "idle", Return(c),
           UNCHANGED <<file, mem, program, calls>>, devices' \in Seq(Devices), Len(devices') <= MaxDevices,
           Len(devices) <= Len(devices'), wgDevices' \in 0 .. MaxDevices, keys' \in 0 .. MaxDevices,
           \/ failed' = TRUE
           \/ /\ at[c] \notin {"assign", "write"}
              /\ (at[c] = "load" /\ op[c] = "RegisterWg") => mem.wgKey # 0
              /\ failed' = failed /\ devices' = devices /\ wgDevices' = wgDevices
    PROVE  Left(c) /\ TypeInv'
<1>1. Moves(c, "idle", Blank, <<>>) /\ op' = op
  BY ReturnFacts
<1>2. failed' \in BOOLEAN
  BY DEF TypeInv
<1>3. /\ file' \in Records /\ mem' \in Records /\ program' \in {"none", "app", "cli"}
      /\ op' \in [Callers -> AppOps \cup CliOps] /\ calls' \in 0 .. MaxCalls
  BY <1>1 DEF TypeInv
<1>4. Len(<<>>) <= 5
  BY RangesOfGroups
<1>5. TypeInv'
  BY <1>1, <1>2, <1>3, <1>4, MovesKeepTypes
<1>6. /\ failed' \/ (failed' = failed /\ devices' = devices /\ wgDevices' = wgDevices)
      /\ at[c] \in {"assign", "write"} => failed'
      /\ (at[c] = "load" /\ op[c] = "RegisterWg") => (failed' \/ mem.wgKey # 0)
  OBVIOUS
<1> QED
  BY <1>1, <1>5, <1>6 DEF Left

\* The server unchanged.
LEMMA LeftAlone ==
    ASSUME TypeInv, NEW c \in Callers, at[c] # "idle", Return(c),
           UNCHANGED <<file, mem, program, devices, wgDevices, keys, calls>>,
           \/ failed' = TRUE
           \/ /\ failed' = failed /\ at[c] \notin {"assign", "write"}
              /\ (at[c] = "load" /\ op[c] = "RegisterWg") => mem.wgKey # 0
    PROVE  Left(c) /\ TypeInv'
<1>1. Len(devices) \in Nat /\ Len(devices) <= Len(devices')
  BY LenProperties DEF TypeInv
<1>2. /\ devices' \in Seq(Devices) /\ Len(devices') <= MaxDevices
      /\ wgDevices' \in 0 .. MaxDevices /\ keys' \in 0 .. MaxDevices
  BY DEF TypeInv
<1> QED
  BY <1>1, <1>2, LeftFacts

LEMMA ReturnLoadedFacts ==
    ASSUME TypeInv, NEW c \in Callers, ReturnLoaded(c)
    PROVE  Left(c) /\ TypeInv'
BY LeftAlone DEF ReturnLoaded, Loaded, NothingToDo, server

LEMMA ApiReturnsFacts ==
    ASSUME TypeInv, NEW c \in Callers, ApiReturns(c)
    PROVE  Left(c) /\ TypeInv'
BY LeftAlone DEF ApiReturns, server

LEMMA CreateFailsFacts ==
    ASSUME TypeInv, NEW c \in Callers, CreateFails(c)
    PROVE  Left(c) /\ TypeInv'
BY LeftAlone DEF CreateFails, server

LEMMA WriteFailsFacts ==
    ASSUME TypeInv, NEW c \in Callers, WriteFails(c)
    PROVE  Left(c) /\ TypeInv'
BY LeftAlone DEF WriteFails, server

LEMMA AnswerFacts ==
    ASSUME TypeInv, NEW c \in Callers, NEW heard \in BOOLEAN, NEW place \in Places, NEW r \in Records,
           NEW groups \in Seq(GroupSet), Len(groups) <= 5, Answer(c, heard, place, r, groups), at[c] # "idle",
           devices' \in Seq(Devices), Len(devices') <= MaxDevices,
           Len(devices) <= Len(devices'), wgDevices' \in 0 .. MaxDevices, keys' \in 0 .. MaxDevices
    PROVE  /\ Left(c) \/ (Moves(c, place, r, groups) /\ UNCHANGED <<file, mem, op, program, failed>>)
           /\ TypeInv'
<1>1. CASE heard
  <2>1. Goto(c, place) /\ Copies(c, r, groups) /\ UNCHANGED <<file, mem, op, program, calls, failed>>
    BY <1>1 DEF Answer, TypeInv
  <2>2. Moves(c, place, r, groups)
    BY <2>1, MoveFacts
  <2>3. TypeInv'
    BY <2>1, <2>2, MovesKeepTypes DEF TypeInv
  <2> QED
    BY <2>1, <2>2, <2>3
<1>2. CASE ~heard
  <2>1. Return(c) /\ UNCHANGED <<file, mem, program, calls>> /\ failed' = TRUE
    BY <1>2 DEF Answer
  <2> QED
    BY <2>1, LeftFacts
<1> QED
  BY <1>1, <1>2

LEMMA RegisterFacts ==
    ASSUME TypeInv, NEW c \in Callers, NEW heard \in BOOLEAN, Register(c, heard)
    PROVE  (Left(c) \/ Registered(c)) /\ TypeInv'
<1> DEFINE r == [Blank EXCEPT !.id = Len(devices) + 1]
<1>1. Len(devices) \in Nat /\ Len(devices) < MaxDevices /\ MaxDevices \in Nat
  BY LenProperties, ConfigStoreAssumption DEF Register, TypeInv
<1>2. r \in Records /\ r.id = Len(devices) + 1
  <2> DEFINE n == Len(devices) + 1
  <2>1. n \in 0 .. MaxDevices /\ r = [Blank EXCEPT !.id = n]
    BY <1>1
  <2> HIDE DEF n
  <2>2. [Blank EXCEPT !.id = n] \in Records /\ [Blank EXCEPT !.id = n].id = n
    BY <2>1, BlankIsRecord DEF Records
  <2> QED
    BY <2>1, <2>2 DEF n
<1>3. /\ devices' \in Seq(Devices) /\ Len(devices') = Len(devices) + 1
      /\ \A i \in 1 .. Len(devices) : devices'[i] = devices[i]
  BY AppendFacts DEF Register, TypeInv
<1>4. at[c] = "register" /\ Answer(c, heard, "enroll", r, <<>>)
      /\ UNCHANGED <<wgDevices, keys>>
  BY DEF Register
<1> HIDE DEF r
<1>5. /\ wgDevices' \in 0 .. MaxDevices /\ keys' \in 0 .. MaxDevices
      /\ Len(devices') <= MaxDevices /\ Len(devices) <= Len(devices')
  BY <1>1, <1>3, <1>4 DEF TypeInv
<1>6. "enroll" \in Places /\ Len(<<>>) <= 5 /\ <<>> \in Seq(GroupSet)
  BY RangesOfGroups DEF Places
<1>7. /\ Left(c) \/ (Moves(c, "enroll", r, <<>>) /\ UNCHANGED <<file, mem, op, program, failed>>)
      /\ TypeInv'
  BY <1>2, <1>3, <1>4, <1>5, <1>6, AnswerFacts
<1> QED
  BY <1>2, <1>3, <1>4, <1>7 DEF Registered

LEMMA EnrollKeyFacts ==
    ASSUME TypeInv, IdsAreReal, NEW c \in Callers, NEW heard \in BOOLEAN, EnrollKey(c, heard)
    PROVE  (Left(c) \/ \E key \in 0 .. MaxDevices : KeyStored(c, key)) /\ TypeInv'
<1>1. PICK key \in KeyChoices(c) :
        /\ key <= MaxDevices
        /\ keys' = IF key > keys THEN key ELSE keys
        /\ devices' = [devices EXCEPT ![src[c].id].key = key]
        /\ Answer(c, heard, "assign", Enrolled(c, key), Groups)
  BY DEF EnrollKey
<1>2. key \in 0 .. MaxDevices
  <2>1. src[c].key \in 0 .. MaxDevices /\ keys \in 0 .. MaxDevices
    BY DEF TypeInv, Records
  <2>2. key = keys + 1 \/ key = src[c].key
    BY DEF KeyChoices
  <2> QED
    BY <1>1, <2>1, <2>2, ConfigStoreAssumption
<1>3. at[c] = "enroll" /\ wgDevices' = wgDevices
  BY DEF EnrollKey
<1>4. Real(src[c])
  BY <1>3 DEF IdsAreReal, IdFits
<1>5. /\ devices' \in Seq(Devices) /\ Len(devices') = Len(devices) /\ devices'[src[c].id].key = key
      /\ \A i \in 1 .. Len(devices) : i # src[c].id => devices'[i] = devices[i]
  <2> DEFINE i == src[c].id
  <2>1. i \in 1 .. Len(devices) /\ devices \in Seq(Devices) /\ devices' = [devices EXCEPT ![i].key = key]
    BY <1>1, <1>4 DEF Real, TypeInv
  <2> HIDE DEF i
  <2>2. /\ devices' \in Seq(Devices) /\ Len(devices') = Len(devices) /\ devices'[i].key = key
        /\ \A j \in 1 .. Len(devices) : j # i => devices'[j] = devices[j]
    BY <1>2, <2>1, KeyFacts
  <2> QED
    BY <2>2 DEF i
<1>6. LET r == Enrolled(c, key)
      IN  r \in Records /\ r.key = key /\ r.id = src[c].id /\ r.wgKey = 0 /\ r.wgId = 0
  BY <1>2, <1>4, EnrolledFacts
<1>7. keys' \in 0 .. MaxDevices /\ wgDevices' \in 0 .. MaxDevices /\ Len(devices') <= MaxDevices
      /\ Len(devices) <= Len(devices')
  <2>1. keys' \in 0 .. MaxDevices
    BY <1>1, <1>2 DEF TypeInv
  <2>2. Len(devices) \in Nat /\ Len(devices) <= MaxDevices /\ wgDevices \in 0 .. MaxDevices
    BY LenProperties DEF TypeInv
  <2> QED
    BY <1>3, <1>5, <2>1, <2>2
<1>8. "assign" \in Places /\ Groups \in Seq(GroupSet) /\ Len(Groups) <= 5
  BY RangesOfGroups DEF Places
<1>9. /\ Left(c) \/ (Moves(c, "assign", Enrolled(c, key), Groups) /\ UNCHANGED <<file, mem, op, program, failed>>)
      /\ TypeInv'
  BY <1>1, <1>3, <1>5, <1>6, <1>7, <1>8, AnswerFacts
<1>10. ASSUME Moves(c, "assign", Enrolled(c, key), Groups), UNCHANGED <<file, mem, op, program, failed>>
       PROVE  KeyStored(c, key)
  <2>1. src'[c] = Enrolled(c, key)
    BY <1>10 DEF Moves
  <2> QED
    BY <1>3, <1>5, <1>6, <1>10, <2>1 DEF KeyStored
<1> QED
  BY <1>2, <1>9, <1>10

\* The record of a WireGuard registration, and of a changed license.
LEMMA WgRecordFacts ==
    ASSUME NEW r \in Records, NEW n \in 0 .. MaxDevices
    PROVE  LET t == [r EXCEPT !.wgKey = n, !.wgId = n]
           IN  /\ t \in Records /\ t.key = r.key /\ t.id = r.id /\ t.license = r.license
               /\ t.wgKey = n /\ t.wgId = n
BY DEF Records

LEMMA RegisterWithWgKeyFacts ==
    ASSUME TypeInv, NEW c \in Callers, NEW heard \in BOOLEAN, RegisterWithWgKey(c, heard)
    PROVE  (Left(c) \/ WgAdded(c)) /\ TypeInv'
<1> DEFINE n == wgDevices + 1
           r == [src[c] EXCEPT !.wgKey = n, !.wgId = n]
<1>1. n \in 0 .. MaxDevices /\ wgDevices' = n /\ at[c] = "ask" /\ op[c] = "RegisterWg"
      /\ devices' = devices /\ keys' = keys
  <2>1. wgDevices \in 0 .. MaxDevices /\ wgDevices < MaxDevices /\ MaxDevices \in Nat
    BY ConfigStoreAssumption DEF RegisterWithWgKey, TypeInv
  <2>2. n \in 0 .. MaxDevices
    BY <2>1
  <2> QED
    BY <2>2 DEF RegisterWithWgKey
<1>2. Answer(c, heard, "assign", r, <<"wgKey", "wgId">>)
  BY DEF RegisterWithWgKey
<1>3. /\ r \in Records /\ r.key = src[c].key /\ r.id = src[c].id /\ r.license = src[c].license
      /\ r.wgKey = n /\ r.wgId = n
  <2>1. src[c] \in Records
    BY DEF TypeInv
  <2> HIDE DEF n
  <2> QED
    BY <1>1, <2>1, WgRecordFacts
<1> HIDE DEF r
<1>4. /\ devices' \in Seq(Devices) /\ Len(devices') <= MaxDevices /\ Len(devices) <= Len(devices')
      /\ keys' \in 0 .. MaxDevices /\ wgDevices' \in 0 .. MaxDevices
  <2>1. Len(devices) \in Nat
    BY LenProperties DEF TypeInv
  <2> QED
    BY <1>1, <2>1 DEF TypeInv
<1>5. "assign" \in Places /\ <<"wgKey", "wgId">> \in Seq(GroupSet) /\ Len(<<"wgKey", "wgId">>) <= 5
  BY RangesOfGroups DEF Places
<1>6. /\ Left(c) \/ (Moves(c, "assign", r, <<"wgKey", "wgId">>) /\ UNCHANGED <<file, mem, op, program, failed>>)
      /\ TypeInv'
  BY <1>1, <1>2, <1>3, <1>4, <1>5, AnswerFacts
<1> QED
  BY <1>1, <1>3, <1>6 DEF WgAdded

LEMMA ChangeLicenseFacts ==
    ASSUME TypeInv, IdsAreReal, NEW c \in Callers, NEW heard \in BOOLEAN, ChangeLicense(c, heard)
    PROVE  (Left(c) \/ LicenseSet(c)) /\ TypeInv'
<1> DEFINE l == NewLicense(c)
           r == [src[c] EXCEPT !.license = l]
<1>1. l \in Licenses /\ at[c] = "ask" /\ op[c] \in LicenseOps /\ wgDevices' = wgDevices /\ keys' = keys
      /\ devices' = [devices EXCEPT ![src[c].id].license = l] /\ Answer(c, heard, "assign", r, <<"license">>)
  BY DEF ChangeLicense, NewLicense, Licenses
<1>2. Real(src[c])
  BY <1>1 DEF IdsAreReal, IdFits, Stages
<1>3. /\ r \in Records /\ r.key = src[c].key /\ r.id = src[c].id
      /\ r.wgKey = src[c].wgKey /\ r.wgId = src[c].wgId /\ r.license = l
  <2>1. src[c] \in Records
    BY DEF TypeInv
  <2> HIDE DEF l
  <2> QED
    BY <1>1, <2>1 DEF Records, Licenses
<1> HIDE DEF r, l
<1>4. /\ devices' \in Seq(Devices) /\ Len(devices') = Len(devices) /\ devices'[src[c].id].license = l
      /\ \A i \in 1 .. Len(devices) : devices'[i].key = devices[i].key
  <2> DEFINE i == src[c].id
  <2>1. i \in 1 .. Len(devices) /\ devices \in Seq(Devices) /\ devices' = Relicensed(devices, i, l)
    BY <1>1, <1>2 DEF Real, TypeInv, Relicensed
  <2> HIDE DEF i
  <2>2. /\ devices' \in Seq(Devices) /\ Len(devices') = Len(devices) /\ devices'[i].license = l
        /\ devices'[i].key = devices[i].key
        /\ \A j \in 1 .. Len(devices) : j # i => devices'[j] = devices[j]
    <3>1. l \in Licenses
      BY <1>1
    <3> QED
      BY <2>1, <3>1, LicenseFacts
  <2> QED
    BY <2>2 DEF i
<1>5. keys' \in 0 .. MaxDevices /\ wgDevices' \in 0 .. MaxDevices /\ Len(devices') <= MaxDevices
      /\ Len(devices) <= Len(devices')
  <2>1. Len(devices) \in Nat
    BY LenProperties DEF TypeInv
  <2> QED
    BY <1>1, <1>4, <2>1 DEF TypeInv
<1>6. "assign" \in Places /\ <<"license">> \in Seq(GroupSet) /\ Len(<<"license">>) <= 5
  <2>1. "license" \in GroupSet
    BY DEF GroupSet
  <2> QED
    BY <2>1, RangesOfGroups DEF Places
<1>7. /\ Left(c) \/ (Moves(c, "assign", r, <<"license">>) /\ UNCHANGED <<file, mem, op, program, failed>>)
      /\ TypeInv'
  BY <1>1, <1>3, <1>4, <1>5, <1>6, AnswerFacts
<1> QED
  BY <1>1, <1>3, <1>4, <1>7 DEF LicenseSet, l

LEMMA CreateFacts ==
    ASSUME TypeInv, NEW c \in Callers, Create(c)
    PROVE  Created(c) /\ TypeInv'
<1>1. Goto(c, "write") /\ Copies(c, mem, <<>>) /\ file' = Blank /\ at[c] = "assign" /\ todo[c] = <<>>
      /\ UNCHANGED <<mem, op, program, devices, wgDevices, keys, calls, failed>>
  BY DEF Create, server
<1>2. "write" \in Places /\ mem \in Records
  BY DEF Places, TypeInv
<1>3. Moves(c, "write", mem, <<>>)
  BY <1>1, <1>2, MoveFacts, RangesOfGroups
<1>4. TypeInv'
  BY <1>1, <1>3, MovesKeepTypes, RangesOfGroups, BlankIsRecord DEF TypeInv
<1> QED
  BY <1>1, <1>3, <1>4 DEF Created

LEMMA WriteFacts ==
    ASSUME TypeInv, NEW c \in Callers, Write(c)
    PROVE  Written(c) /\ TypeInv'
<1>1. Return(c) /\ file' = src[c] /\ at[c] = "write"
      /\ UNCHANGED <<mem, program, devices, wgDevices, keys, calls, failed>>
  BY DEF Write, server
<1>2. Moves(c, "idle", Blank, <<>>) /\ op' = op /\ src[c] \in Records
  BY <1>1, ReturnFacts DEF TypeInv
<1>3. /\ file' \in Records /\ mem' \in Records /\ program' \in {"none", "app", "cli"}
      /\ op' \in [Callers -> AppOps \cup CliOps] /\ calls' \in 0 .. MaxCalls
      /\ devices' \in Seq(Devices) /\ Len(devices') <= MaxDevices
      /\ wgDevices' \in 0 .. MaxDevices /\ keys' \in 0 .. MaxDevices /\ failed' \in BOOLEAN
  BY <1>1, <1>2 DEF TypeInv
<1>4. TypeInv'
  BY <1>2, <1>3, MovesKeepTypes, RangesOfGroups
<1> QED
  BY <1>1, <1>2, <1>4 DEF Written

LEMMA ExitFacts ==
    ASSUME TypeInv, Exit
    PROVE  Ended /\ TypeInv'
<1>1. Ended /\ keys' = keys /\ calls' = calls
  BY DEF Exit, Ended, server
<1>2. /\ at' \in [Callers -> Places] /\ src' \in [Callers -> Records] /\ todo' \in [Callers -> Seq(GroupSet)]
      /\ \A c \in Callers : Len(todo'[c]) <= 5
  <2>1. at' \in [Callers -> Places]
    BY <1>1 DEF Ended, Places
  <2>2. src' \in [Callers -> Records]
    BY <1>1, BlankIsRecord DEF Ended
  <2>3. todo' \in [Callers -> Seq(GroupSet)] /\ \A c \in Callers : todo'[c] = <<>>
    BY <1>1, RangesOfGroups DEF Ended
  <2> QED
    BY <2>1, <2>2, <2>3, RangesOfGroups
<1>3. failed' \in BOOLEAN
  BY <1>1 DEF Ended, TypeInv
<1> QED
  BY <1>1, <1>2, <1>3, BlankIsRecord DEF Ended, TypeInv

-----------------------------------------------------------------------------
(* The steps, by what they do.                                             *)

Does(c) ==
    \/ Left(c)
    \/ \E o \in AppOps \cup CliOps : Entered(c, o)
    \/ \E g \in GroupSet : Copied(c, g)
    \/ \E place \in Places : Asked(c, place)
    \/ Registered(c)
    \/ \E key \in 0 .. MaxDevices : KeyStored(c, key)
    \/ WgAdded(c)
    \/ LicenseSet(c)
    \/ Created(c)
    \/ Written(c)

Effect == Started \/ Ended \/ \E c \in Callers : Does(c)

LEMMA StepEffect ==
    ASSUME TypeInv, TodoFits, IdsAreReal, Step
    PROVE  Effect /\ TypeInv'
<1>1. CASE \E p \in {"app", "cli"} : Start(p)
  BY <1>1, StartFacts DEF Effect
<1>2. CASE Exit
  BY <1>2, ExitFacts DEF Effect
<1>3. ASSUME NEW c \in Callers,
             \/ \E o \in AppOps \cup CliOps : LoadConfig(c, o)
             \/ Copy(c) \/ ReturnLoaded(c) \/ Ask(c)
             \/ Answered(c) \/ ApiReturns(c)
             \/ Create(c) \/ CreateFails(c) \/ Write(c) \/ WriteFails(c)
      PROVE  Does(c) /\ TypeInv'
  <2>1. CASE \E o \in AppOps \cup CliOps : LoadConfig(c, o)
    BY <2>1, LoadConfigFacts DEF Does
  <2>2. CASE Copy(c)
    BY <2>2, CopyFacts DEF Does
  <2>3. CASE ReturnLoaded(c)
    BY <2>3, ReturnLoadedFacts DEF Does
  <2>4. CASE Ask(c)
    BY <2>4, AskFacts DEF Does
  <2>5. CASE Answered(c)
    <3>1. PICK heard \in BOOLEAN :
            Register(c, heard) \/ EnrollKey(c, heard) \/ RegisterWithWgKey(c, heard) \/ ChangeLicense(c, heard)
      BY <2>5 DEF Answered
    <3>2. CASE Register(c, heard)
      BY <3>2, RegisterFacts DEF Does
    <3>3. CASE EnrollKey(c, heard)
      BY <3>3, EnrollKeyFacts DEF Does
    <3>4. CASE RegisterWithWgKey(c, heard)
      BY <3>4, RegisterWithWgKeyFacts DEF Does
    <3>5. CASE ChangeLicense(c, heard)
      BY <3>5, ChangeLicenseFacts DEF Does
    <3> QED
      BY <3>1, <3>2, <3>3, <3>4, <3>5
  <2>6. CASE ApiReturns(c)
    BY <2>6, ApiReturnsFacts DEF Does
  <2>7. CASE Create(c)
    BY <2>7, CreateFacts DEF Does
  <2>8. CASE CreateFails(c)
    BY <2>8, CreateFailsFacts DEF Does
  <2>9. CASE Write(c)
    BY <2>9, WriteFacts DEF Does
  <2>10. CASE WriteFails(c)
    BY <2>10, WriteFailsFacts DEF Does
  <2> QED
    BY <1>3, <2>1, <2>2, <2>3, <2>4, <2>5, <2>6, <2>7, <2>8, <2>9, <2>10
<1> QED
  BY <1>1, <1>2, <1>3 DEF Step, Effect

\* The callers that do not move keep their places, and what depends on them.
LEMMA OthersStay ==
    ASSUME NEW c \in Callers, Does(c), NEW d \in Callers, d # c
    PROVE  at'[d] = at[d] /\ src'[d] = src[d] /\ todo'[d] = todo[d] /\ op'[d] = op[d]
BY DEF Does, Left, Entered, Copied, Asked, Registered, KeyStored, WgAdded, LicenseSet, Created, Written, Moves

-----------------------------------------------------------------------------
(* Places, functions and what is left to copy.                             *)

LEMMA TodoKept ==
    ASSUME TypeInv, TypeInv', TodoFits, OpsFit, Effect
    PROVE  TodoFits'
<1>1. CASE Started
  BY <1>1 DEF Started, TodoFits, TodoFit, Pending
<1>2. CASE Ended
  BY <1>2 DEF Ended, TodoFits, TodoFit, Pending
<1>3. ASSUME NEW c \in Callers, Does(c), NEW d \in Callers
      PROVE  TodoFit(d)'
  <2>1. CASE d # c
    BY <1>3, <2>1, OthersStay DEF TodoFits, TodoFit, Pending
  <2>2. CASE Left(c) /\ d = c
    BY <2>2 DEF Left, Moves, TodoFit
  <2>3. ASSUME NEW o \in AppOps \cup CliOps, Entered(c, o), d = c PROVE TodoFit(d)'
    <3>1. Range(Present(file)) = {"key", "license", "id"}
                \cup (IF file.wgKey # 0 THEN {"wgKey"} ELSE {}) \cup (IF file.wgId # 0 THEN {"wgId"} ELSE {})
      BY PresentFacts DEF TypeInv
    <3>2. CASE Moves(c, "load", file, Present(file))
      BY <2>3, <3>1, <3>2 DEF Moves, TodoFit, Pending
    <3>3. CASE Moves(c, "register", file, <<>>)
      BY <2>3, <3>3 DEF Moves, TodoFit
    <3> QED
      BY <2>3, <3>2, <3>3 DEF Entered
  <2>4. ASSUME NEW g \in GroupSet, Copied(c, g), d = c PROVE TodoFit(d)'
    <3>1. Range(todo'[c]) \subseteq Pending(c) /\ op' = op /\ at'[c] = at[c] /\ src'[c] = src[c]
          /\ at[c] \in {"load", "assign"}
      BY <2>4 DEF Copied, Moves
    <3> QED
      BY <2>4, <3>1 DEF TodoFits, TodoFit, Pending
  <2>5. ASSUME NEW place \in Places, Asked(c, place), d = c PROVE TodoFit(d)'
    BY <2>5 DEF Asked, Moves, TodoFit
  <2>6. CASE Registered(c) /\ d = c
    BY <2>6 DEF Registered, Moves, TodoFit
  <2>7. ASSUME NEW key \in 0 .. MaxDevices, KeyStored(c, key), d = c PROVE TodoFit(d)'
    <3>1. at'[c] = "assign" /\ op'[c] \in Enrolling
      BY <2>7 DEF KeyStored, Moves, OpsFit, OpFits
    <3> QED
      BY <2>7, <3>1 DEF TodoFit, Enrolling, LicenseOps
  <2>8. CASE WgAdded(c) /\ d = c
    <3>1. wgDevices + 1 # 0 /\ Range(<<"wgKey", "wgId">>) = {"wgKey", "wgId"}
      BY RangesOfGroups DEF TypeInv
    <3>2. /\ at'[c] = "assign" /\ op'[c] = "RegisterWg" /\ todo'[c] = <<"wgKey", "wgId">>
          /\ src'[c].wgKey = wgDevices + 1 /\ src'[c].wgId = wgDevices + 1
      BY <2>8 DEF WgAdded, Moves
    <3> QED
      BY <2>8, <3>1, <3>2 DEF TodoFit, Pending, LicenseOps
  <2>9. CASE LicenseSet(c) /\ d = c
    <3>1. Range(<<"license">>) = {"license"}
      BY RangesOfGroups DEF GroupSet
    <3>2. at'[c] = "assign" /\ op'[c] \in LicenseOps /\ todo'[c] = <<"license">>
      BY <2>9 DEF LicenseSet, Moves
    <3> QED
      BY <2>9, <3>1, <3>2 DEF TodoFit, Pending, LicenseOps
  <2>10. CASE Created(c) /\ d = c
    BY <2>10 DEF Created, Moves, TodoFit
  <2>11. CASE Written(c) /\ d = c
    BY <2>11 DEF Written, Moves, TodoFit
  <2> QED
    BY <1>3, <2>1, <2>2, <2>3, <2>4, <2>5, <2>6, <2>7, <2>8, <2>9, <2>10, <2>11 DEF Does
<1> QED
  BY <1>1, <1>2, <1>3 DEF Effect, TodoFits

\* A caller that does something is in a function, or all of them are idle or in the application.
LEMMA BusyOrEnters ==
    ASSUME NEW c \in Callers, Does(c)
    PROVE  at[c] # "idle" \/ \E o \in AppOps \cup CliOps : Entered(c, o)
BY DEF Does, Left, Entered, Copied, Asked, Registered, KeyStored, WgAdded, LicenseSet, Created, Written

LEMMA OpsKept ==
    ASSUME TypeInv, TypeInv', OpsFit, Effect
    PROVE  OpsFit'
<1>1. CASE Started
  <2>1. \A c \in Callers : at[c] = "idle"
    BY <1>1 DEF Started, OpsFit, OpFits
  <2> QED
    BY <1>1, <2>1 DEF Started, OpsFit, OpFits
<1>2. CASE Ended
  BY <1>2 DEF Ended, OpsFit, OpFits
<1>3. ASSUME NEW c \in Callers, Does(c), NEW d \in Callers
      PROVE  OpFits(d)'
  <2>p. program' = program
    BY <1>3 DEF Does, Left, Entered, Copied, Asked, Registered, KeyStored, WgAdded, LicenseSet, Created, Written
  <2>f. at[d] # "idle" => \/ program = "app" /\ op[d] \in AppOps
                         \/ /\ program = "cli" /\ op[d] \in CliOps
                            /\ \A e \in Callers \ {d} : at[e] = "idle"
    BY DEF OpsFit, OpFits
  <2>1. CASE d # c
    <3>1. at'[d] = at[d] /\ op'[d] = op[d]
      BY <1>3, <2>1, OthersStay
    <3>2. at[d] # "idle" => program = "app" /\ op[d] \in AppOps
      <4>1. SUFFICES ASSUME at[d] # "idle", program = "cli", \A e \in Callers \ {d} : at[e] = "idle" PROVE FALSE
        BY <2>f
      <4>2. at[c] = "idle"
        BY <2>1, <4>1
      <4>3. PICK o \in AppOps \cup CliOps : Entered(c, o)
        BY <1>3, <4>2, BusyOrEnters
      <4> QED
        BY <4>1, <4>3 DEF Entered
    <3> QED
      BY <2>p, <3>1, <3>2 DEF OpsFit, OpFits
  <2>2. CASE d = c
    <3>1. CASE \E o \in AppOps \cup CliOps : Entered(c, o)
      <4>1. PICK o \in AppOps \cup CliOps : Entered(c, o)
        BY <3>1
      <4>2. op'[c] = o /\ (at'[c] = "load" \/ (at'[c] = "register" /\ o \in Registers))
        BY <4>1 DEF Entered, Moves
      <4>3. \/ program = "app" /\ o \in AppOps
            \/ program = "cli" /\ o \in CliOps /\ \A e \in Callers : at[e] = "idle"
        BY <4>1 DEF Entered
      <4>4. \A e \in Callers : e # c => at'[e] = at[e]
        BY <1>3, OthersStay
      <4> QED
        BY <2>p, <2>2, <4>2, <4>3, <4>4 DEF OpFits
    <3>2. CASE at[c] # "idle" /\ op' = op
      <4>1. \A e \in Callers : e # c => at'[e] = at[e]
        BY <1>3, OthersStay
      <4>2. at'[d] # "idle" => \/ program' = "app" /\ op'[d] \in AppOps
                               \/ /\ program' = "cli" /\ op'[d] \in CliOps
                                  /\ \A e \in Callers \ {d} : at'[e] = "idle"
        BY <2>f, <2>p, <2>2, <3>2, <4>1
      <4>3. /\ at'[c] = "register" => op[c] \in Registers
            /\ at'[c] = "enroll" => op[c] \in Enrolling
            /\ at'[c] = "ask" => op[c] \in Savers \cup {"GetAccountInfo"}
            /\ at'[c] \in {"assign", "write"} => op[c] \in Savers \cup Enrolling
        <5>0. OpFits(c)
          BY DEF OpsFit
        <5>1. CASE Left(c)
          BY <5>1 DEF Left, Moves
        <5>2. CASE \E g \in GroupSet : Copied(c, g)
          BY <5>0, <5>2 DEF Copied, Moves, OpFits
        <5>3. CASE \E place \in Places : Asked(c, place)
          BY <5>3 DEF Asked, Moves, Registers, Enrolling
        <5>4. CASE Registered(c)
          BY <5>0, <5>4 DEF Registered, Moves, OpFits, Registers, Enrolling
        <5>5. CASE \E key \in 0 .. MaxDevices : KeyStored(c, key)
          BY <5>0, <5>5 DEF KeyStored, Moves, OpFits
        <5>6. CASE WgAdded(c)
          BY <5>6 DEF WgAdded, Moves, Savers
        <5>7. CASE LicenseSet(c)
          BY <5>7 DEF LicenseSet, Moves, Savers, LicenseOps
        <5>8. CASE Created(c)
          BY <5>0, <5>8 DEF Created, Moves, OpFits
        <5>9. CASE Written(c)
          BY <5>9 DEF Written, Moves
        <5>10. CASE \E o \in AppOps \cup CliOps : Entered(c, o)
          BY <3>2, <5>10 DEF Entered
        <5> QED
          BY <1>3, <5>1, <5>2, <5>3, <5>4, <5>5, <5>6, <5>7, <5>8, <5>9, <5>10 DEF Does
      <4> QED
        BY <2>2, <3>2, <4>2, <4>3 DEF OpFits
    <3>3. op' = op \/ \E o \in AppOps \cup CliOps : Entered(c, o)
      BY <1>3 DEF Does, Left, Copied, Asked, Registered, KeyStored, WgAdded, LicenseSet, Created, Written
    <3> QED
      BY <1>3, <3>1, <3>2, <3>3, BusyOrEnters
  <2> QED
    BY <2>1, <2>2
<1> QED
  BY <1>1, <1>2, <1>3 DEF Effect, OpsFit

-----------------------------------------------------------------------------
(* The identities are the server's.                                        *)

LEMMA DevicesStay ==
    ASSUME TypeInv, TypeInv', Effect
    PROVE  /\ Len(devices) \in Nat /\ Len(devices') \in Nat /\ Len(devices) <= Len(devices')
           /\ \A i \in 1 .. Len(devices) : i \in 1 .. Len(devices')
<1>1. Len(devices) \in Nat /\ Len(devices') \in Nat
  BY LenProperties DEF TypeInv
<1>2. \/ devices' = devices
      \/ Len(devices') = Len(devices) + 1
      \/ Len(devices') = Len(devices)
      \/ Len(devices) <= Len(devices')
  <2>1. CASE Started \/ Ended
    BY <2>1 DEF Started, Ended
  <2>2. ASSUME NEW c \in Callers, Does(c)
        PROVE  \/ devices' = devices
               \/ Len(devices') = Len(devices) + 1
               \/ Len(devices') = Len(devices)
               \/ Len(devices) <= Len(devices')
    BY <2>2 DEF Does, Left, Entered, Copied, Asked, Registered, KeyStored, WgAdded, LicenseSet,
                Created, Written
  <2> QED
    BY <2>1, <2>2 DEF Effect
<1> QED
  BY <1>1, <1>2

\* What each step does to AppConfig and to the file.
LEMMA OnlyCopiesTouchMem ==
    ASSUME NEW c \in Callers, Does(c)
    PROVE  \/ mem' = mem
           \/ \E g \in GroupSet : Copied(c, g)
BY DEF Does, Left, Entered, Copied, Asked, Registered, KeyStored, WgAdded, LicenseSet, Created, Written

LEMMA OnlySavesTouchFile ==
    ASSUME NEW c \in Callers, Does(c)
    PROVE  file' = file \/ Created(c) \/ Written(c)
BY DEF Does, Left, Entered, Copied, Asked, Registered, KeyStored, WgAdded, LicenseSet, Created, Written

LEMMA IdsKept ==
    ASSUME TypeInv, TypeInv', TodoFits, IdsAreReal, Effect
    PROVE  IdsAreReal'
<1>0. /\ Len(devices) \in Nat /\ Len(devices') \in Nat /\ Len(devices) <= Len(devices')
      /\ \A i \in 1 .. Len(devices) : i \in 1 .. Len(devices')
  BY DevicesStay
<1>1. CASE Started
  BY <1>1 DEF Started, IdsAreReal, IdFits, Real, Readable, Carried, Pending
<1>2. CASE Ended
  <2>1. \A d \in Callers : IdFits(d)'
    BY <1>2 DEF Ended, IdFits, Carried, Stages
  <2>2. (Readable => Real(file))'
    BY <1>2 DEF Ended, IdsAreReal, Real, Readable
  <2> QED
    BY <2>1, <2>2 DEF IdsAreReal
<1>3. ASSUME NEW c \in Callers, Does(c)
      PROVE  IdsAreReal'
  <2>1. (Readable => Real(file))'
    <3>1. CASE file' = file
      BY <1>0, <3>1 DEF IdsAreReal, Real, Readable
    <3>2. CASE Created(c)
      BY <3>2 DEF Created, Readable
    <3>3. CASE Written(c)
      <4>1. Real(src[c]) /\ file' = src[c]
        BY <3>3 DEF Written, IdsAreReal, IdFits, Stages
      <4> QED
        BY <1>0, <4>1 DEF Real
    <3> QED
      BY <1>3, <3>1, <3>2, <3>3, OnlySavesTouchFile
  <2>2. mem'.id = mem.id \/ (Copied(c, "id") /\ mem'.id = src[c].id)
    <3>1. CASE mem' = mem
      BY <3>1
    <3>2. ASSUME NEW g \in GroupSet, Copied(c, g) PROVE mem'.id = mem.id \/ (g = "id" /\ mem'.id = src[c].id)
      BY <3>2 DEF Copied, GroupSet
    <3> QED
      BY <1>3, <3>1, <3>2, OnlyCopiesTouchMem
  <2>3. Real(mem) => mem'.id \in 1 .. Len(devices')
    <3>1. CASE mem'.id = mem.id
      BY <1>0, <3>1 DEF Real
    <3>2. CASE Copied(c, "id") /\ mem'.id = src[c].id
      <4>1. Real(src[c])
        BY <3>2 DEF Copied, IdsAreReal, IdFits, Stages
      <4> QED
        BY <1>0, <3>2, <4>1 DEF Real
    <3> QED
      BY <2>2, <3>1, <3>2
  <2>4. ASSUME NEW d \in Callers, d # c PROVE IdFits(d)'
    <3>1. at'[d] = at[d] /\ src'[d] = src[d] /\ todo'[d] = todo[d]
      BY <1>3, <2>4, OthersStay
    <3>2. (at[d] \in Stages \cup {"enroll"} => Real(src[d])) /\ (Carried(d, "id") => Real(mem))
      BY DEF IdsAreReal, IdFits
    <3> QED
      BY <1>0, <2>3, <3>1, <3>2 DEF IdFits, Real, Carried, Pending
  <2>5. IdFits(c)'
    <3>0. (at[c] \in Stages \cup {"enroll"} => Real(src[c])) /\ (Carried(c, "id") => Real(mem))
      BY DEF IdsAreReal, IdFits
    <3>1. CASE Left(c)
      BY <3>1 DEF Left, Moves, IdFits, Carried, Stages
    <3>2. ASSUME NEW o \in AppOps \cup CliOps, Entered(c, o) PROVE IdFits(c)'
      <4>1. CASE Readable /\ Moves(c, "load", file, Present(file))
        <5>1. "id" \in Pending(c)' /\ src'[c] = file /\ at'[c] = "load"
          <6>1. file \in Records
            BY DEF TypeInv
          <6>2. "id" \in Range(Present(file))
            BY <6>1, PresentFacts
          <6> QED
            BY <4>1, <6>2 DEF Moves, Pending
        <5>2. Real(file)
          BY <4>1 DEF IdsAreReal
        <5> QED
          BY <1>0, <5>1, <5>2 DEF IdFits, Carried, Real
      <4>2. CASE Moves(c, "register", file, <<>>)
        BY <4>2 DEF Moves, IdFits, Carried, Stages
      <4> QED
        BY <3>2, <4>1, <4>2 DEF Entered
    <3>3. ASSUME NEW g \in GroupSet, Copied(c, g) PROVE IdFits(c)'
      <4>1. at'[c] = at[c] /\ src'[c] = src[c] /\ Pending(c) = {g} \cup Pending(c)' /\ at[c] \in {"load", "assign"}
        BY <3>3 DEF Copied, Moves, Pending
      <4>2. CASE g = "id"
        <5>1. mem'.id = src[c].id
          BY <3>3, <4>2 DEF Copied
        <5>2. Real(src[c])
          BY <3>0, <4>1 DEF Stages
        <5> QED
          BY <1>0, <4>1, <5>1, <5>2 DEF IdFits, Real
      <4>3. CASE g # "id"
        <5>1. Carried(c, "id")' => Carried(c, "id")
          BY <4>1, <4>3 DEF Carried
        <5> QED
          BY <1>0, <2>3, <3>0, <4>1, <5>1 DEF IdFits, Real
      <4> QED
        BY <4>2, <4>3
    <3>4. ASSUME NEW place \in Places, Asked(c, place) PROVE IdFits(c)'
      <4>1. Real(mem)
        BY <3>0, <3>4, RangesOfGroups DEF Asked, Carried, Pending
      <4>2. mem' = mem /\ src'[c] = mem
        BY <3>4 DEF Asked, Moves
      <4> QED
        BY <1>0, <4>1, <4>2 DEF IdFits, Real
    <3>5. CASE Registered(c)
      <4>1. at'[c] = "enroll" /\ src'[c].id = Len(devices) + 1 /\ Len(devices') = Len(devices) + 1
        BY <3>5 DEF Registered, Moves
      <4> QED
        BY <1>0, <4>1 DEF IdFits, Real, Carried
    <3>6. ASSUME NEW key \in 0 .. MaxDevices, KeyStored(c, key) PROVE IdFits(c)'
      <4>1. Real(src[c]) /\ src'[c].id = src[c].id
        BY <3>0, <3>6 DEF KeyStored
      <4>2. "id" \in Pending(c)'
        BY <3>6, RangesOfGroups DEF KeyStored, Moves, Pending, GroupSet
      <4> QED
        BY <1>0, <4>1, <4>2 DEF IdFits, Real, Carried
    <3>7. CASE WgAdded(c) \/ LicenseSet(c)
      <4>1. at[c] = "ask" /\ src'[c].id = src[c].id /\ mem' = mem
        BY <3>7 DEF WgAdded, LicenseSet, Moves
      <4>2. todo[c] = <<>>
        BY <4>1 DEF TodoFits, TodoFit
      <4>3. Real(mem) /\ Real(src[c])
        BY <3>0, <4>1, <4>2, RangesOfGroups DEF Carried, Pending, Stages
      <4> QED
        BY <1>0, <4>1, <4>3 DEF IdFits, Real
    <3>8. CASE Created(c)
      <4>1. Real(mem)
        BY <3>0, <3>8, RangesOfGroups DEF Created, Carried, Pending
      <4>2. mem' = mem /\ src'[c] = mem
        BY <3>8 DEF Created, Moves
      <4> QED
        BY <1>0, <4>1, <4>2 DEF IdFits, Real
    <3>9. CASE Written(c)
      BY <3>9 DEF Written, Moves, IdFits, Carried, Stages
    <3> QED
      BY <1>3, <3>1, <3>2, <3>3, <3>4, <3>5, <3>6, <3>7, <3>8, <3>9 DEF Does
  <2> QED
    BY <2>1, <2>4, <2>5 DEF IdsAreReal
<1> QED
  BY <1>1, <1>2, <1>3 DEF Effect

-----------------------------------------------------------------------------
(* What the histories have seen.                                           *)

LEMMA MeetingsKept ==
    ASSUME Observe
    PROVE  MeetingsSeen' /\ overlaps \subseteq overlaps'
BY DEF Observe, MeetingsSeen, Meet, Changing

LEMMA OnlyCreatesWrite ==
    ASSUME NEW c \in Callers, Does(c), NEW d \in Callers, at'[d] = "write"
    PROVE  at[d] = "write" \/ (d = c /\ Created(c))
<1>1. CASE d # c
  BY <1>1, OthersStay
<1>2. CASE d = c
  BY <1>2 DEF Does, Left, Entered, Copied, Asked, Registered, KeyStored, WgAdded, LicenseSet, Created, Written, Moves
<1> QED
  BY <1>1, <1>2

\* Whoever writes finds the file truncated, until two save at once.
LEMMA WritersKept ==
    ASSUME WriterFindsBlank, MeetingsSeen, Effect, Observe
    PROVE  WriterFindsBlank'
<1>1. SUFFICES ASSUME "save" \notin overlaps', NEW d \in Callers, at'[d] = "write"
               PROVE  ~Readable'
  BY DEF WriterFindsBlank
<1>2. "save" \notin overlaps
  BY <1>1, MeetingsKept
<1>3. CASE Started \/ Ended
  BY <1>1, <1>2, <1>3 DEF Started, Ended, WriterFindsBlank, Readable
<1>4. ASSUME NEW c \in Callers, Does(c) PROVE ~Readable'
  <2>1. CASE Created(c)
    BY <2>1 DEF Created, Readable
  <2>2. CASE ~Created(c)
    <3>1. at[d] = "write" /\ ~Readable
      BY <1>1, <1>2, <1>4, <2>2, OnlyCreatesWrite DEF WriterFindsBlank
    <3>2. ~Written(c)
      <4>1. SUFFICES ASSUME Written(c) PROVE FALSE
        OBVIOUS
      <4>2. at[c] = "write" /\ d # c
        BY <1>1, <4>1 DEF Written, Moves
      <4> QED
        BY <1>2, <3>1, <4>2 DEF MeetingsSeen, Meet
    <3> QED
      BY <1>4, <2>2, <3>1, <3>2, OnlySavesTouchFile DEF Readable
  <2> QED
    BY <2>1, <2>2
<1> QED
  BY <1>3, <1>4 DEF Effect

LEMMA AloneKept ==
    ASSUME TypeInv, TodoFits, OpsFit, AloneFits, Effect, Observe
    PROVE  AloneFits'
<1>1. SUFFICES ASSUME NEW d \in alone' PROVE AloneFit(d)'
  BY DEF AloneFits
<1>2. /\ d \in Callers /\ at'[d] # "idle" /\ (at[d] = "idle" \/ d \in alone)
      /\ \A e \in Callers \ {d} : at'[e] = "idle"
  BY <1>1 DEF Observe
<1>3. CASE Started
  <2>1. at[d] = "idle" /\ at' = at
    BY <1>2, <1>3 DEF Started, OpsFit, OpFits
  <2> QED
    BY <1>2, <2>1
<1>4. CASE Ended
  BY <1>2, <1>4 DEF Ended
<1>5. ASSUME NEW c \in Callers, Does(c) PROVE AloneFit(d)'
  <2>1. d = c
    <3>1. SUFFICES ASSUME d # c PROVE FALSE
      OBVIOUS
    <3>2. d \in alone /\ at'[c] = "idle"
      BY <1>2, <1>5, <3>1, OthersStay
    <3>3. at[c] = "idle"
      BY <3>1, <3>2 DEF AloneFits, AloneFit
    <3>4. PICK o \in AppOps \cup CliOps : Entered(c, o)
      BY <1>5, <3>3, BusyOrEnters
    <3> QED
      BY <3>2, <3>4 DEF Entered, Moves
  <2>2. ASSUME NEW o \in AppOps \cup CliOps, Entered(c, o) PROVE AloneFit(d)'
    <3>1. at'[c] \in {"load", "register"}
      BY <2>2 DEF Entered, Moves
    <3> QED
      BY <1>2, <2>1, <3>1 DEF AloneFit
  <2>3. ASSUME at[c] # "idle" PROVE AloneFit(c)
    BY <1>2, <2>1, <2>3 DEF AloneFits
  <2>4. CASE Left(c)
    BY <1>2, <2>1, <2>4 DEF Left, Moves
  <2>5. ASSUME NEW g \in GroupSet, Copied(c, g) PROVE AloneFit(d)'
    <3>1. /\ at'[c] = at[c] /\ at[c] \in {"load", "assign"} /\ src'[c] = src[c] /\ op' = op /\ devices' = devices
          /\ file' = file /\ mem'[g] = src[c][g] /\ (g # "id" => mem'.id = mem.id) /\ g \in Pending(c)
      BY <2>5 DEF Copied, Moves, GroupSet
    <3>2. AloneFit(c)
      BY <2>3, <3>1
    <3>3. CASE at[c] = "assign" /\ op[c] \in LicenseOps
      <4>1. g = "license"
        BY <3>1, <3>3 DEF TodoFits, TodoFit
      <4>2. mem.id = src[c].id /\ devices[src[c].id].license = src[c].license
        BY <3>2, <3>3 DEF AloneFit
      <4> QED
        BY <1>2, <2>1, <3>1, <3>3, <4>1, <4>2 DEF AloneFit
    <3>4. CASE ~(at[c] = "assign" /\ op[c] \in LicenseOps)
      BY <1>2, <2>1, <3>1, <3>4 DEF AloneFit
    <3> QED
      BY <3>3, <3>4
  <2>6. ASSUME NEW place \in Places, Asked(c, place) PROVE AloneFit(d)'
    <3>1. src'[c] = mem /\ mem' = mem /\ at'[c] = place /\ place \in {"register", "enroll", "ask"}
      BY <2>6 DEF Asked, Moves
    <3> QED
      BY <1>2, <2>1, <3>1 DEF AloneFit
  <2>7. CASE Registered(c)
    BY <1>2, <2>1, <2>7 DEF Registered, Moves, AloneFit
  <2>8. ASSUME NEW key \in 0 .. MaxDevices, KeyStored(c, key) PROVE AloneFit(d)'
    <3>1. op'[c] \in Enrolling /\ at'[c] = "assign"
      BY <2>8 DEF KeyStored, Moves, OpsFit, OpFits
    <3> QED
      BY <1>2, <2>1, <3>1 DEF AloneFit, Enrolling, LicenseOps
  <2>9. CASE WgAdded(c)
    BY <1>2, <2>1, <2>9 DEF WgAdded, Moves, AloneFit, LicenseOps
  <2>10. CASE LicenseSet(c)
    <3>1. /\ at[c] = "ask" /\ op[c] \in LicenseOps /\ op' = op /\ mem' = mem /\ at'[c] = "assign"
          /\ src'[c].id = src[c].id /\ src'[c].license = NewLicense(c) /\ todo'[c] = <<"license">>
          /\ devices'[src[c].id].license = NewLicense(c)
      BY <2>10 DEF LicenseSet, Moves
    <3>2. mem.id = src[c].id
      BY <2>3, <3>1 DEF AloneFit
    <3>3. "license" \in Pending(c)'
      BY <3>1, RangesOfGroups DEF Pending, GroupSet
    <3> QED
      BY <1>2, <2>1, <3>1, <3>2, <3>3 DEF AloneFit, Carried
  <2>11. CASE Created(c)
    <3>1. /\ at[c] = "assign" /\ todo[c] = <<>> /\ at'[c] = "write" /\ src'[c] = mem /\ file' = Blank
          /\ UNCHANGED <<mem, op, devices>>
      BY <2>11 DEF Created, Moves
    <3>2. AloneFit(c)
      BY <2>3, <3>1
    <3>3. Carried(c, "license")
      BY <3>1, RangesOfGroups DEF Carried, Pending
    <3>4. op[c] \in LicenseOps => devices'[src'[c].id].license = src'[c].license
      BY <3>1, <3>2, <3>3 DEF AloneFit
    <3> QED
      BY <1>2, <2>1, <3>1, <3>4 DEF AloneFit, Readable
  <2>12. CASE Written(c)
    BY <1>2, <2>1, <2>12 DEF Written, Moves
  <2> QED
    BY <1>5, <2>2, <2>4, <2>5, <2>6, <2>7, <2>8, <2>9, <2>10, <2>11, <2>12 DEF Does
<1> QED
  BY <1>3, <1>4, <1>5 DEF Effect

-----------------------------------------------------------------------------
(* No save loses the WireGuard device.                                     *)

LEMMA DurableComesFrom ==
    ASSUME Effect, NEW r \in Durable'
    PROVE  r \in Durable \/ \E c \in Callers : Created(c) /\ r = mem
<1>1. CASE r = file' /\ Readable'
  <2>1. CASE file' = file
    BY <1>1, <2>1 DEF Durable, Readable
  <2>2. ASSUME NEW c \in Callers, Written(c) PROVE r \in Durable
    BY <1>1, <2>2 DEF Written, Durable
  <2>3. ASSUME NEW c \in Callers, Created(c) PROVE FALSE
    BY <1>1, <2>3 DEF Created, Readable
  <2>4. file' = file \/ \E c \in Callers : Written(c) \/ Created(c)
    BY OnlySavesTouchFile DEF Effect, Started, Ended
  <2> QED
    BY <2>1, <2>2, <2>3, <2>4
<1>2. ASSUME NEW d \in Callers, at'[d] = "write", r = src'[d] PROVE r \in Durable \/ \E c \in Callers : Created(c) /\ r = mem
  <2>1. CASE Started
    BY <1>2, <2>1 DEF Started, Durable
  <2>2. CASE Ended
    BY <1>2, <2>2 DEF Ended
  <2>3. ASSUME NEW c \in Callers, Does(c) PROVE r \in Durable \/ (Created(c) /\ r = mem)
    <3>1. CASE Created(c) /\ d = c
      BY <1>2, <3>1 DEF Created, Moves
    <3>2. CASE at[d] = "write"
      <4>1. src'[d] = src[d]
        <5>1. CASE d # c
          BY <2>3, <5>1, OthersStay
        <5>2. CASE d = c
          BY <1>2, <2>3, <3>2, <5>2
            DEF Does, Left, Entered, Copied, Asked, Registered, KeyStored, WgAdded, LicenseSet, Created, Written, Moves
        <5> QED
          BY <5>1, <5>2
      <4> QED
        BY <1>2, <3>2, <4>1 DEF Durable
    <3> QED
      BY <1>2, <2>3, <3>1, <3>2, OnlyCreatesWrite
  <2> QED
    BY <2>1, <2>2, <2>3 DEF Effect
<1> QED
  BY <1>1, <1>2 DEF Durable, Readable

LEMMA WgKeptKept ==
    ASSUME TypeInv, TodoFits, OpsFit, MeetingsSeen, WriterFindsBlank, WgKept, Effect, Observe
    PROVE  WgKept'
<1>1. SUFFICES ASSUME (overlaps \cap {"register", "save"} = {})', NEW g \in {"wgKey", "wgId"},
                      NEW r \in Durable', r[g] # 0, NEW d \in Callers, op'[d] \in Savers, Carried(d, g)'
               PROVE  mem'[g] # 0
  BY DEF WgKept
<1>2. "register" \notin overlaps /\ "save" \notin overlaps /\ g \in GroupSet
  BY <1>1, MeetingsKept DEF GroupSet
<1>3. CASE \E c \in Callers : Created(c) /\ r = mem
  BY <1>1, <1>3 DEF Created
<1>4. ASSUME r \in Durable PROVE mem'[g] # 0
  <2>0. \A c \in Callers : (op[c] \in Savers /\ Carried(c, g)) => mem[g] # 0
    BY <1>1, <1>2, <1>4 DEF WgKept
  <2>1. CASE Started
    BY <1>1, <2>0, <2>1 DEF Started, Carried, Pending
  <2>2. CASE Ended
    BY <1>1, <2>2 DEF Ended, Carried
  <2>3. ASSUME NEW c \in Callers, Does(c) PROVE mem'[g] # 0
    <3>1. CASE Copied(c, g)
      <4>1. mem'[g] = src[c][g] /\ g \in Pending(c) /\ at[c] \in {"load", "assign"} /\ op' = op /\ at'[c] = at[c]
        BY <3>1 DEF Copied, Moves
      <4>2. at[d] # "idle"
        <5>1. at'[d] # "idle"
          BY <1>1 DEF Carried
        <5> QED
          BY <2>3, <4>1, <5>1, OthersStay
      <4>3. CASE at[c] = "load"
        BY <4>1, <4>3 DEF TodoFits, TodoFit
      <4>4. CASE at[c] = "assign" /\ op[c] \in Savers
        <5>1. op[c] = "RegisterWg" \/ op[c] \in LicenseOps
          BY <4>4 DEF Savers, LicenseOps
        <5>2. CASE op[c] = "RegisterWg"
          BY <4>1, <4>4, <5>2 DEF TodoFits, TodoFit
        <5>3. CASE op[c] \in LicenseOps
          BY <4>1, <4>4, <5>3 DEF TodoFits, TodoFit
        <5> QED
          BY <5>1, <5>2, <5>3
      <4>5. CASE at[c] = "assign" /\ op[c] \in Enrolling
        <5>1. op[d] \in Savers /\ op[d] \notin {"Read", "GetAccountInfo"} /\ d # c
          BY <1>1, <4>1, <4>5 DEF Savers, Enrolling
        <5>2. CASE op[c] = "Register"
          BY <1>2, <4>2, <4>5, <5>1, <5>2 DEF MeetingsSeen, Meet, Changing
        <5>3. CASE op[c] \in {"register", "enroll"}
          BY <4>2, <4>5, <5>1, <5>3 DEF OpsFit, OpFits, AppOps
        <5> QED
          BY <4>5, <5>2, <5>3 DEF Enrolling
      <4>6. at[c] = "assign" => op[c] \in Savers \cup Enrolling
        BY DEF OpsFit, OpFits
      <4> QED
        BY <4>1, <4>3, <4>4, <4>5, <4>6
    <3>2. ASSUME ~Copied(c, g) PROVE mem'[g] = mem[g]
      <4>1. CASE mem' = mem
        BY <4>1
      <4>2. ASSUME NEW h \in GroupSet, Copied(c, h) PROVE mem'[g] = mem[g]
        <5>1. h # g
          BY <3>2, <4>2
        <5> QED
          BY <1>2, <4>2, <5>1 DEF Copied
      <4> QED
        BY <2>3, <4>1, <4>2, OnlyCopiesTouchMem
    <3>3. CASE d # c
      <4>1. op[d] \in Savers /\ Carried(d, g)
        BY <1>1, <2>3, <3>3, OthersStay DEF Carried, Pending
      <4> QED
        BY <2>0, <3>1, <3>2, <4>1
    <3>4. CASE d = c /\ ~Copied(c, g)
      <4>0. SUFFICES op[c] \in Savers /\ Carried(c, g)
        BY <2>0, <3>2, <3>4
      <4>1. CASE Left(c) \/ Registered(c) \/ Created(c) \/ Written(c)
        BY <1>1, <3>4, <4>1 DEF Left, Registered, Created, Written, Moves, Carried
      <4>2. ASSUME NEW o \in AppOps \cup CliOps, Entered(c, o) PROVE FALSE
        <5>1. Readable /\ Moves(c, "load", file, Present(file))
          <6>1. at'[c] # "register"
            BY <1>1, <3>4 DEF Carried
          <6> QED
            BY <4>2, <6>1 DEF Entered, Moves
        <5>2. g \notin Range(Present(file))
          BY <1>1, <3>4, <5>1 DEF Carried, Pending, Moves
        <5>3. file[g] = 0
          <6>1. Range(Present(file)) = {"key", "license", "id"}
                \cup (IF file.wgKey # 0 THEN {"wgKey"} ELSE {}) \cup (IF file.wgId # 0 THEN {"wgId"} ELSE {})
            BY PresentFacts DEF TypeInv
          <6> QED
            BY <1>1, <5>2, <6>1
        <5>4. r = file
          BY <1>2, <1>4, <5>1 DEF WriterFindsBlank, Durable
        <5> QED
          BY <1>1, <5>3, <5>4
      <4>3. ASSUME NEW h \in GroupSet, Copied(c, h) PROVE op[c] \in Savers /\ Carried(c, g)
        <5>1. h # g /\ op' = op /\ at'[c] = at[c] /\ Pending(c) = {h} \cup Pending(c)'
          BY <3>4, <4>3 DEF Copied, Moves, Pending
        <5> QED
          BY <1>1, <3>4, <5>1 DEF Carried
      <4>4. ASSUME NEW place \in Places, Asked(c, place) PROVE op[c] \in Savers /\ Carried(c, g)
        BY <1>1, <3>4, <4>4, RangesOfGroups DEF Asked, Carried, Pending
      <4>5. ASSUME NEW key \in 0 .. MaxDevices, KeyStored(c, key) PROVE FALSE
        BY <1>1, <3>4, <4>5 DEF KeyStored, OpsFit, OpFits, Savers, Enrolling
      <4>6. CASE WgAdded(c)
        <5>1. g \in Pending(c)'
          BY <4>6, RangesOfGroups DEF WgAdded, Moves, Pending
        <5> QED
          BY <1>1, <3>4, <5>1 DEF Carried
      <4>7. CASE LicenseSet(c)
        <5>1. at[c] = "ask" /\ op[c] \in Savers
          BY <4>7 DEF LicenseSet, LicenseOps, Savers
        <5>2. todo[c] = <<>>
          BY <5>1 DEF TodoFits, TodoFit
        <5> QED
          BY <5>1, <5>2, RangesOfGroups DEF Carried, Pending
      <4> QED
        BY <2>3, <4>1, <4>2, <4>3, <4>4, <4>5, <4>6, <4>7 DEF Does
    <3> QED
      BY <3>1, <3>3, <3>4
  <2> QED
    BY <2>1, <2>2, <2>3 DEF Effect
<1> QED
  BY <1>1, <1>3, <1>4, DurableComesFrom

-----------------------------------------------------------------------------
(* The identity of the file.                                               *)

\* A step of a caller, while nothing has failed and no registration has met
\* another change.
GoodStep(c) ==
    /\ TypeInv /\ TodoFits /\ OpsFit /\ IdsAreReal /\ MeetingsSeen /\ IdentityOK
    /\ Does(c) /\ Observe /\ Good /\ Good'
    /\ Len(devices) \in Nat /\ Len(devices') \in Nat /\ Len(devices) <= Len(devices')

LEMMA WorkersInStages ==
    \A s \in {"load", "ask", "assign", "write"} : s \in Stages /\ s # "idle" /\ s # "register" /\ s # "enroll"
BY DEF Stages

\* Only a caller that nobody else works with enrols a key.
LEMMA EnrollsAlone ==
    ASSUME NEW c \in Callers, GoodStep(c), op[c] \in Enrolling, Changes(c)
    PROVE  /\ \A d \in Callers \ {c} : at[d] = "idle"
           /\ op[c] = "Register" => ~Readable
<1>1. CASE op[c] = "Register"
  BY <1>1 DEF GoodStep, IdentityOK, RegisterAlone
<1>2. CASE op[c] \in {"register", "enroll"}
  BY <1>2 DEF GoodStep, OpsFit, OpFits, Changes, AppOps
<1> QED
  BY <1>1, <1>2 DEF Enrolling

\* Nobody enters the command line while another caller works.
LEMMA EntersWith ==
    ASSUME NEW c \in Callers, GoodStep(c), NEW o \in AppOps \cup CliOps, Entered(c, o),
           NEW d \in Callers, at[d] # "idle"
    PROVE  program = "app" /\ o \in AppOps /\ op[d] \in AppOps /\ d # c
<1>1. /\ \/ program = "app" /\ op[d] \in AppOps
         \/ program = "cli" /\ op[d] \in CliOps /\ \A e \in Callers \ {d} : at[e] = "idle"
  BY DEF GoodStep, OpsFit, OpFits
<1> QED
  BY <1>1 DEF Entered

\* Where the record of a caller comes from.
LEMMA Identities ==
    ASSUME NEW c \in Callers, GoodStep(c), NEW d \in Callers, at'[d] \in Stages
    PROVE  \/ /\ at[d] \in Stages /\ op'[d] = op[d]
              /\ src'[d].key = src[d].key /\ src'[d].id = src[d].id
           \/ /\ d = c /\ at[c] = "idle" /\ Readable /\ src'[c] = file /\ at'[c] = "load"
              /\ todo'[c] = Present(file) /\ \E o \in AppOps \cup CliOps : Entered(c, o)
           \/ d = c /\ \E key \in 0 .. MaxDevices : KeyStored(c, key)
<1>0. Does(c)
  BY DEF GoodStep
<1>1. CASE d # c
  BY <1>0, <1>1, OthersStay
<1>c. \A g \in {"key", "id"} : Carried(c, g) => mem[g] = src[c][g]
  BY DEF GoodStep, IdentityOK, CopiesFit
<1>m. ASSUME at[c] \in {"load", "assign"}, todo[c] = <<>> PROVE mem.key = src[c].key /\ mem.id = src[c].id
  <2>1. Carried(c, "key") /\ Carried(c, "id")
    BY <1>m, RangesOfGroups DEF Carried, Pending
  <2> QED
    BY <1>c, <2>1
<1>2. CASE d = c
  <2>1. CASE Left(c) \/ Written(c)
    BY <1>2, <2>1 DEF Left, Written, Moves, Stages
  <2>2. CASE Registered(c)
    BY <1>2, <2>2 DEF Registered, Moves, Stages
  <2>3. ASSUME NEW o \in AppOps \cup CliOps, Entered(c, o)
        PROVE  /\ at[c] = "idle" /\ Readable /\ src'[c] = file /\ at'[c] = "load" /\ todo'[c] = Present(file)
    BY <1>2, <2>3 DEF Entered, Moves, Stages
  <2>4. CASE \E g \in GroupSet : Copied(c, g)
    BY <1>2, <2>4 DEF Copied, Moves
  <2>5. CASE \E place \in Places : Asked(c, place)
    <3>1. at[c] = "load" /\ todo[c] = <<>> /\ src'[c] = mem /\ op' = op
      BY <2>5 DEF Asked, Moves
    <3> QED
      BY <1>2, <1>m, <3>1, WorkersInStages
  <2>6. CASE WgAdded(c) \/ LicenseSet(c)
    <3>1. at[c] = "ask" /\ src'[c].key = src[c].key /\ src'[c].id = src[c].id /\ op' = op
      BY <2>6 DEF WgAdded, LicenseSet, Moves
    <3> QED
      BY <1>2, <3>1, WorkersInStages
  <2>7. CASE Created(c)
    <3>1. at[c] = "assign" /\ todo[c] = <<>> /\ src'[c] = mem /\ op' = op
      BY <2>7 DEF Created, Moves
    <3> QED
      BY <1>2, <1>m, <3>1, WorkersInStages
  <2> QED
    BY <1>0, <1>2, <2>1, <2>2, <2>3, <2>4, <2>5, <2>6, <2>7 DEF Does
<1> QED
  BY <1>1, <1>2

\* The keys that the server keeps.
LEMMA DeviceKeysStay ==
    ASSUME NEW c \in Callers, GoodStep(c), NEW i \in 1 .. Len(devices)
    PROVE  /\ i \in 1 .. Len(devices')
           /\ \/ devices'[i].key = devices[i].key
              \/ i = src[c].id /\ \E key \in 0 .. MaxDevices : KeyStored(c, key)
<1>1. i \in 1 .. Len(devices')
  BY DEF GoodStep
<1>2. CASE devices' = devices
  BY <1>1, <1>2
<1>3. CASE Registered(c)
  BY <1>1, <1>3 DEF Registered
<1>4. CASE LicenseSet(c)
  BY <1>1, <1>4 DEF LicenseSet
<1>5. CASE \E key \in 0 .. MaxDevices : KeyStored(c, key)
  BY <1>1, <1>5 DEF KeyStored
<1>6. devices' = devices \/ Registered(c) \/ LicenseSet(c) \/ \E key \in 0 .. MaxDevices : KeyStored(c, key)
  BY DEF GoodStep, Good, Does, Left, Entered, Copied, Asked, WgAdded, Created, Written
<1> QED
  BY <1>2, <1>3, <1>4, <1>5, <1>6

LEMMA SourcesStillWork ==
    ASSUME NEW c \in Callers, GoodStep(c), NEW d \in Callers, at'[d] \in Stages
    PROVE  Works(src[d])'
<1>1. ASSUME NEW r, Works(r) PROVE /\ r.id \in 1 .. Len(devices')
                                   /\ \/ devices'[r.id].key = r.key
                                      \/ r.id = src[c].id /\ \E key \in 0 .. MaxDevices : KeyStored(c, key)
  BY <1>1, DeviceKeysStay DEF Works, Real
<1>2. ASSUME NEW key \in 0 .. MaxDevices, KeyStored(c, key)
      PROVE  op[c] \in Enrolling /\ Changes(c) /\ at[c] = "enroll"
  BY <1>2 DEF GoodStep, KeyStored, OpsFit, OpFits, Changes
<1>3. CASE /\ at[d] \in Stages /\ src'[d].key = src[d].key /\ src'[d].id = src[d].id
  <2>1. Works(src[d])
    BY <1>3 DEF GoodStep, IdentityOK, SourcesWork
  <2>2. ASSUME NEW key \in 0 .. MaxDevices, KeyStored(c, key) PROVE FALSE
    <3>1. at[d] # "idle" /\ at[d] # "enroll"
      BY <1>3 DEF Stages
    <3> QED
      BY <1>2, <2>2, <3>1, EnrollsAlone
  <2>3. src[d].id \in 1 .. Len(devices') /\ devices'[src[d].id].key = src[d].key
    BY <1>1, <2>1, <2>2
  <2> QED
    BY <1>3, <2>3 DEF Works, Real
<1>4. CASE /\ d = c /\ at[c] = "idle" /\ Readable /\ src'[c] = file
           /\ \E o \in AppOps \cup CliOps : Entered(c, o)
  <2>1. ASSUME NEW e \in Callers, at[e] = "assign", op[e] = "enroll" PROVE FALSE
    BY <1>4, <2>1, EntersWith DEF AppOps
  <2>2. Works(file)
    BY <1>4, <2>1 DEF GoodStep, IdentityOK, FileWorks
  <2>3. ASSUME NEW key \in 0 .. MaxDevices, KeyStored(c, key) PROVE FALSE
    BY <1>4, <2>3 DEF KeyStored
  <2>4. file.id \in 1 .. Len(devices') /\ devices'[file.id].key = file.key
    BY <1>1, <2>2, <2>3
  <2> QED
    BY <1>4, <2>4 DEF Works, Real
<1>5. ASSUME d = c, NEW key \in 0 .. MaxDevices, KeyStored(c, key) PROVE Works(src[d])'
  <2>1. Real(src[c])
    BY <1>2, <1>5 DEF GoodStep, IdsAreReal, IdFits
  <2>2. src'[c].key = key /\ src'[c].id = src[c].id /\ devices'[src[c].id].key = key /\ Len(devices') = Len(devices)
    BY <1>5 DEF KeyStored
  <2> QED
    BY <1>5, <2>1, <2>2 DEF Works, Real
<1> QED
  BY <1>3, <1>4, <1>5, Identities

LEMMA StillSameIdentity ==
    ASSUME NEW c \in Callers, GoodStep(c), NEW d \in Callers, NEW e \in Callers,
           at'[d] \in Stages, at'[e] \in Stages
    PROVE  src'[e].key = src'[d].key /\ src'[e].id = src'[d].id
<1> DEFINE Old(x) == /\ at[x] \in Stages /\ op'[x] = op[x]
                     /\ src'[x].key = src[x].key /\ src'[x].id = src[x].id
           Enters == /\ at[c] = "idle" /\ Readable /\ src'[c] = file
                     /\ \E o \in AppOps \cup CliOps : Entered(c, o)
           Stores == \E key \in 0 .. MaxDevices : KeyStored(c, key)
<1>1. /\ Old(d) \/ (d = c /\ Enters) \/ (d = c /\ Stores)
      /\ Old(e) \/ (e = c /\ Enters) \/ (e = c /\ Stores)
  BY Identities
<1>2. CASE Old(d) /\ Old(e)
  BY <1>2 DEF GoodStep, IdentityOK, SameIdentity
<1>3. ASSUME NEW x \in Callers, Old(x), Enters PROVE src'[x].key = src'[c].key /\ src'[x].id = src'[c].id
  <2>1. at[x] # "idle"
    BY <1>3 DEF Stages
  <2>2. op[x] \in AppOps
    BY <1>3, <2>1, EntersWith
  <2>3. op[x] \notin {"register", "enroll"}
    BY <2>2 DEF AppOps
  <2> QED
    BY <1>3, <2>3 DEF GoodStep, IdentityOK, FileAgrees
<1>4. ASSUME NEW x \in Callers, Old(x), Stores PROVE FALSE
  <2>1. op[c] \in Enrolling /\ Changes(c) /\ at[c] = "enroll"
    BY <1>4 DEF GoodStep, KeyStored, OpsFit, OpFits, Changes
  <2>2. at[x] # "idle" /\ at[x] # "enroll"
    BY <1>4 DEF Stages
  <2> QED
    BY <2>1, <2>2, EnrollsAlone
<1>5. CASE d = c /\ e = c
  BY <1>5
<1> HIDE DEF Old, Enters, Stores
<1> QED
  BY <1>1, <1>2, <1>3, <1>4, <1>5

LEMMA FileStillAgrees ==
    ASSUME NEW c \in Callers, GoodStep(c), Readable', NEW d \in Callers,
           at'[d] \in Stages, op'[d] \notin {"register", "enroll"}
    PROVE  file'.key = src'[d].key /\ file'.id = src'[d].id
<1>0. Does(c)
  BY DEF GoodStep
<1>1. CASE file' = file
  <2>1. Readable
    BY <1>1 DEF Readable
  <2>2. CASE /\ at[d] \in Stages /\ op'[d] = op[d]
             /\ src'[d].key = src[d].key /\ src'[d].id = src[d].id
    BY <1>1, <2>1, <2>2 DEF GoodStep, IdentityOK, FileAgrees
  <2>3. CASE d = c /\ src'[c] = file
    BY <1>1, <2>3
  <2>4. ASSUME d = c, NEW key \in 0 .. MaxDevices, KeyStored(c, key) PROVE FALSE
    <3>1. op[c] \in Enrolling /\ Changes(c) /\ op'[c] = op[c]
      BY <2>4 DEF GoodStep, KeyStored, OpsFit, OpFits, Changes
    <3>2. op[c] = "Register"
      BY <2>4, <3>1 DEF Enrolling
    <3> QED
      BY <2>1, <3>1, <3>2, EnrollsAlone
  <2> QED
    BY <2>2, <2>3, <2>4, Identities
<1>2. CASE Created(c)
  BY <1>2 DEF Created, Readable
<1>3. CASE Written(c)
  <2>1. at[c] = "write" /\ at'[c] = "idle" /\ file' = src[c]
    BY <1>3 DEF Written, Moves
  <2>2. d # c /\ at[d] \in Stages /\ src'[d] = src[d]
    <3>1. d # c
      BY <2>1 DEF Stages
    <3> QED
      BY <1>0, <3>1, OthersStay
  <2>3. at[c] \in Stages
    BY <2>1, WorkersInStages
  <2> QED
    BY <2>1, <2>2, <2>3 DEF GoodStep, IdentityOK, SameIdentity
<1> QED
  BY <1>0, <1>1, <1>2, <1>3, OnlySavesTouchFile

LEMMA CopiesStillFit ==
    ASSUME NEW c \in Callers, GoodStep(c), NEW d \in Callers, NEW g \in {"key", "id"}, Carried(d, g)'
    PROVE  mem'[g] = src'[d][g]
<1>0. Does(c) /\ g \in GroupSet
  BY DEF GoodStep, GroupSet
<1>1. at'[d] \in Stages
  BY WorkersInStages DEF Carried
<1>2. CASE /\ at[d] \in Stages /\ op'[d] = op[d]
           /\ src'[d].key = src[d].key /\ src'[d].id = src[d].id
  <2>1. src'[d][g] = src[d][g]
    BY <1>2
  <2>2. CASE Copied(c, g)
    <3>1. mem'[g] = src[c][g] /\ at[c] \in Stages
      BY <2>2, WorkersInStages DEF Copied
    <3>2. src[c][g] = src[d][g]
      BY <1>2, <3>1 DEF GoodStep, IdentityOK, SameIdentity
    <3> QED
      BY <2>1, <3>1, <3>2
  <2>3. CASE ~Copied(c, g)
    <3>1. mem'[g] = mem[g]
      <4>1. ASSUME NEW h \in GroupSet, Copied(c, h) PROVE mem'[g] = mem[g]
        <5>1. h # g
          BY <2>3, <4>1
        <5> QED
          BY <1>0, <4>1, <5>1 DEF Copied
      <4> QED
        BY <1>0, <4>1, OnlyCopiesTouchMem
    <3>2. Carried(d, g)
      <4>1. CASE d # c
        BY <1>0, <4>1, OthersStay DEF Carried, Pending
      <4>2. CASE d = c
        <5>0. SUFFICES Carried(c, g)
          BY <4>2
        <5>1. CASE Left(c) \/ Registered(c) \/ Created(c) \/ Written(c)
          BY <4>2, <5>1 DEF Left, Registered, Created, Written, Moves, Carried
        <5>2. ASSUME NEW o \in AppOps \cup CliOps, Entered(c, o) PROVE FALSE
          BY <1>2, <4>2, <5>2 DEF Entered, Stages
        <5>3. ASSUME NEW h \in GroupSet, Copied(c, h) PROVE Carried(c, g)
          <6>1. h # g /\ at'[c] = at[c] /\ Pending(c) = {h} \cup Pending(c)'
            BY <2>3, <5>3 DEF Copied, Moves, Pending
          <6> QED
            BY <4>2, <6>1 DEF Carried
        <5>4. ASSUME NEW place \in Places, Asked(c, place) PROVE Carried(c, g)
          BY <5>4, RangesOfGroups DEF Asked, Carried, Pending
        <5>5. ASSUME NEW key \in 0 .. MaxDevices, KeyStored(c, key) PROVE FALSE
          BY <1>2, <4>2, <5>5 DEF KeyStored, Stages
        <5>6. CASE WgAdded(c) \/ LicenseSet(c)
          <6>1. at[c] = "ask"
            BY <5>6 DEF WgAdded, LicenseSet
          <6>2. todo[c] = <<>>
            BY <6>1 DEF GoodStep, TodoFits, TodoFit
          <6> QED
            BY <6>1, <6>2, RangesOfGroups DEF Carried, Pending
        <5> QED
          BY <1>0, <4>2, <5>1, <5>2, <5>3, <5>4, <5>5, <5>6 DEF Does
      <4> QED
        BY <4>1, <4>2
    <3>3. mem[g] = src[d][g]
      BY <3>2 DEF GoodStep, IdentityOK, CopiesFit
    <3> QED
      BY <2>1, <3>1, <3>3
  <2> QED
    BY <2>2, <2>3
<1>3. ASSUME d = c, todo'[c] = Present(file) PROVE FALSE
  <2>1. g \in Range(Present(file))
    BY PresentFacts DEF GoodStep, TypeInv
  <2> QED
    BY <1>3, <2>1 DEF Carried, Pending
<1>4. ASSUME d = c, NEW key \in 0 .. MaxDevices, KeyStored(c, key) PROVE FALSE
  <2>1. g \in Pending(c)'
    BY <1>0, <1>4, RangesOfGroups DEF KeyStored, Moves, Pending
  <2> QED
    BY <1>4, <2>1 DEF Carried
<1> QED
  BY <1>1, <1>2, <1>3, <1>4, Identities

LEMMA FileStillWorks ==
    ASSUME NEW c \in Callers, GoodStep(c), Readable',
           \A e \in Callers : ~(at'[e] = "assign" /\ op'[e] = "enroll")
    PROVE  Works(file)'
<1>0. Does(c) /\ ~failed'
  BY DEF GoodStep, Good
<1>1. CASE Created(c)
  BY <1>1 DEF Created, Readable
<1>2. CASE Written(c)
  <2>1. at[c] \in Stages /\ file' = src[c] /\ devices' = devices
    BY <1>2, WorkersInStages DEF Written
  <2>2. Works(src[c])
    BY <2>1 DEF GoodStep, IdentityOK, SourcesWork
  <2> QED
    BY <2>1, <2>2 DEF Works, Real
<1>3. CASE file' = file /\ ~Created(c) /\ ~Written(c)
  <2>1. Readable
    BY <1>3 DEF Readable
  <2>2. ASSUME NEW e \in Callers, at[e] = "assign", op[e] = "enroll" PROVE FALSE
    <3>1. CASE e # c
      BY <1>0, <2>2, <3>1, OthersStay
    <3>2. CASE e = c
      <4>1. CASE Left(c)
        BY <1>0, <2>2, <3>2, <4>1 DEF Left
      <4>2. CASE \E g \in GroupSet : Copied(c, g)
        BY <2>2, <3>2, <4>2 DEF Copied, Moves
      <4> QED
        BY <1>0, <1>3, <2>2, <3>2, <4>1, <4>2
          DEF Does, Entered, Asked, Registered, KeyStored, WgAdded, LicenseSet
    <3> QED
      BY <3>1, <3>2
  <2>3. Works(file)
    BY <2>1, <2>2 DEF GoodStep, IdentityOK, FileWorks
  <2>4. ASSUME file.id = src[c].id, NEW key \in 0 .. MaxDevices, KeyStored(c, key) PROVE FALSE
    <3>1. at[c] = "enroll" /\ op[c] \in Enrolling /\ Changes(c) /\ op'[c] = op[c] /\ at'[c] = "assign"
      BY <2>4 DEF GoodStep, KeyStored, OpsFit, OpFits, Changes, Moves
    <3>2. op[c] # "enroll"
      BY <3>1
    <3>3. op[c] # "Register"
      BY <2>1, <3>1, EnrollsAlone
    <3>4. op[c] # "register"
      BY <2>1, <2>4, <3>1 DEF GoodStep, IdentityOK, NewDevice
    <3> QED
      BY <3>1, <3>2, <3>3, <3>4 DEF Enrolling
  <2>5. file.id \in 1 .. Len(devices') /\ devices'[file.id].key = file.key
    BY <2>3, <2>4, DeviceKeysStay DEF Works, Real
  <2> QED
    BY <1>3, <2>5 DEF Works, Real
<1> QED
  BY <1>0, <1>1, <1>2, <1>3, OnlySavesTouchFile

\* A registration of the application that meets another change is seen.
LEMMA RegistersUnmet ==
    ASSUME NEW c \in Callers, GoodStep(c), NEW d \in Callers, NEW e \in Callers, d # e,
           op'[d] = "Register", Changes(d)', at'[e] # "idle"
    PROVE  op'[e] \in {"Read", "GetAccountInfo"}
<1>1. MeetingsSeen' /\ "register" \notin overlaps'
  BY MeetingsKept DEF GoodStep, Good
<1> QED
  BY <1>1 DEF MeetingsSeen, Meet, Changing, Changes

LEMMA StillRegistersAlone ==
    ASSUME NEW c \in Callers, GoodStep(c), NEW d \in Callers, op'[d] = "Register", Changes(d)'
    PROVE  ~Readable' /\ \A e \in Callers \ {d} : at'[e] = "idle"
<1>0. Does(c)
  BY DEF GoodStep
<1>1. CASE op[d] = "Register" /\ Changes(d)
  <2>1. ~Readable /\ \A e \in Callers \ {d} : at[e] = "idle"
    BY <1>1 DEF GoodStep, IdentityOK, RegisterAlone
  <2>2. CASE c = d
    <3>1. \A e \in Callers \ {d} : at'[e] = "idle"
      BY <1>0, <2>1, <2>2, OthersStay
    <3>2. CASE Written(c)
      BY <2>2, <3>2 DEF Written, Moves, Changes
    <3>3. CASE Created(c)
      BY <3>1, <3>3 DEF Created, Readable
    <3> QED
      BY <1>0, <2>1, <3>1, <3>2, <3>3, OnlySavesTouchFile DEF Readable
  <2>3. ASSUME c # d PROVE FALSE
    <3>1. PICK o \in AppOps \cup CliOps : Entered(c, o)
      BY <1>0, <2>1, <2>3, BusyOrEnters
    <3>2. program = "app" /\ o \in AppOps
      BY <1>1, <3>1, EntersWith DEF Changes
    <3>3. op'[c] = o /\ o = "Register" /\ at'[c] = "register"
      BY <2>1, <3>1, <3>2 DEF Entered, Moves, Registers, AppOps
    <3> QED
      BY <2>3, <3>3, RegistersUnmet
  <2> QED
    BY <2>2, <2>3
<1>2. CASE ~(op[d] = "Register" /\ Changes(d))
  <2>1. d = c
    BY <1>0, <1>2, OthersStay DEF Changes
  <2>2. PICK o \in AppOps \cup CliOps : Entered(c, o)
    <3>1. CASE op' = op
      <4>1. at[c] \in {"idle", "load"} /\ at'[c] \notin {"idle", "load"}
        BY <1>2, <2>1, <3>1 DEF Changes
      <4>2. ~(\E place \in Places : Asked(c, place))
        BY <2>1, <3>1 DEF Asked, Savers
      <4> QED
        BY <1>0, <4>1, <4>2 DEF Does, Left, Copied, Registered, KeyStored, WgAdded, LicenseSet, Created, Written, Moves
    <3>2. CASE op' # op
      BY <1>0, <3>2 DEF Does, Left, Copied, Asked, Registered, KeyStored, WgAdded, LicenseSet, Created, Written
    <3> QED
      BY <3>1, <3>2
  <2>3. o = "Register" /\ ~Readable /\ file' = file
    BY <2>1, <2>2 DEF Entered, Moves, Changes
  <2>4. ASSUME NEW e \in Callers \ {d}, at'[e] # "idle" PROVE FALSE
    <3>1. at[e] = at'[e] /\ op[e] = op'[e]
      BY <1>0, <2>1, <2>4, OthersStay
    <3>2. op'[e] \in {"Read", "GetAccountInfo"}
      BY <2>4, RegistersUnmet
    <3>3. Durable # {}
      BY <2>4, <3>1, <3>2 DEF GoodStep, IdentityOK, AppHasFile, AppOps
    <3>4. PICK f \in Callers : at[f] = "write"
      BY <2>3, <3>3 DEF Durable
    <3>5. op[f] \in Savers \cup Enrolling
      BY <3>4 DEF GoodStep, OpsFit, OpFits
    <3>6. f # c
      BY <2>2, <3>4 DEF Entered
    <3>7. at'[f] = "write" /\ op'[f] = op[f]
      BY <1>0, <3>4, <3>6, OthersStay
    <3>8. op'[f] \in {"Read", "GetAccountInfo"}
      BY <2>1, <3>6, <3>7, RegistersUnmet
    <3> QED
      BY <3>5, <3>7, <3>8 DEF Savers, Enrolling
  <2> QED
    BY <2>3, <2>4 DEF Readable
<1> QED
  BY <1>1, <1>2

LEMMA AppStillHasFile ==
    ASSUME NEW c \in Callers, GoodStep(c), NEW d \in Callers,
           at'[d] # "idle", op'[d] \in AppOps, ~(op'[d] = "Register" /\ Changes(d)')
    PROVE  Durable' # {}
<1>0. Does(c) /\ ~failed'
  BY DEF GoodStep, Good
<1>1. ASSUME Durable # {} PROVE Durable' # {}
  <2>1. CASE Created(c)
    <3>1. at'[c] = "write"
      BY <2>1 DEF Created, Moves
    <3> QED
      BY <3>1 DEF Durable
  <2>2. CASE Written(c)
    <3>1. file' = src[c] /\ Real(src[c])
      BY <2>2, WorkersInStages DEF Written, GoodStep, IdsAreReal, IdFits
    <3>2. Readable'
      <4>1. src[c].id # 0
        BY <3>1 DEF Real, GoodStep
      <4> QED
        BY <3>1, <4>1, BlankIsRecord DEF Readable
    <3> QED
      BY <3>2 DEF Durable
  <2>3. CASE file' = file /\ ~Created(c) /\ ~Written(c)
    <3>1. CASE Readable
      <4>1. Readable'
        BY <2>3, <3>1 DEF Readable
      <4> QED
        BY <4>1 DEF Durable
    <3>2. CASE ~Readable
      <4>1. PICK e \in Callers : at[e] = "write"
        BY <1>1, <3>2 DEF Durable
      <4>2. at'[e] = "write"
        <5>1. CASE e # c
          BY <1>0, <4>1, <5>1, OthersStay
        <5>2. CASE e = c
          BY <1>0, <2>3, <4>1, <5>2
            DEF Does, Left, Entered, Copied, Asked, Registered, KeyStored, WgAdded, LicenseSet
        <5> QED
          BY <5>1, <5>2
      <4> QED
        BY <4>2 DEF Durable
    <3> QED
      BY <3>1, <3>2
  <2> QED
    BY <1>0, <2>1, <2>2, <2>3, OnlySavesTouchFile
<1>2. CASE at[d] # "idle"
  <2>1. op'[d] = op[d]
    BY <1>0, <1>2
      DEF Does, Left, Entered, Copied, Asked, Registered, KeyStored, WgAdded, LicenseSet, Created, Written
  <2>2. ~(op[d] = "Register" /\ Changes(d))
    <3>1. SUFFICES ASSUME op[d] = "Register", Changes(d) PROVE FALSE
      OBVIOUS
    <3>2. d = c /\ at'[c] = "load" /\ at[c] # "load"
      BY <1>0, <2>1, <3>1, OthersStay DEF Changes
    <3> QED
      BY <1>0, <3>2, <1>2
        DEF Does, Left, Entered, Copied, Asked, Registered, KeyStored, WgAdded, LicenseSet, Created, Written, Moves
  <2>3. Durable # {}
    BY <1>2, <2>1, <2>2 DEF GoodStep, IdentityOK, AppHasFile
  <2> QED
    BY <1>1, <2>3
<1>3. CASE at[d] = "idle"
  <2>1. d = c
    BY <1>0, <1>3, OthersStay
  <2>2. PICK o \in AppOps \cup CliOps : Entered(c, o)
    BY <1>0, <1>3, <2>1, BusyOrEnters
  <2>3. CASE Readable
    BY <1>1, <2>3 DEF Durable
  <2>4. CASE ~Readable
    <3>1. o \in Registers /\ op'[c] = o /\ at'[c] = "register"
      BY <2>2, <2>4 DEF Entered, Moves
    <3> QED
      BY <2>1, <3>1 DEF Registers, AppOps, Changes
  <2> QED
    BY <2>3, <2>4
<1> QED
  BY <1>2, <1>3

LEMMA StillNewDevice ==
    ASSUME NEW c \in Callers, GoodStep(c), NEW d \in Callers,
           at'[d] = "enroll", op'[d] = "register", Readable'
    PROVE  src'[d].id # file'.id
<1>0. Does(c)
  BY DEF GoodStep
<1>1. CASE d # c
  <2>1. at[d] = "enroll" /\ op[d] = "register"
    BY <1>0, <1>1, OthersStay
  <2>2. at[c] = "idle"
    BY <1>1, <2>1 DEF GoodStep, OpsFit, OpFits, AppOps
  <2>3. PICK o \in AppOps \cup CliOps : Entered(c, o)
    BY <1>0, <2>2, BusyOrEnters
  <2> QED
    BY <2>1, <2>3, EntersWith DEF AppOps
<1>2. CASE d = c
  <2>1. CASE Registered(c)
    <3>1. src'[c].id = Len(devices) + 1 /\ file' = file
      BY <2>1 DEF Registered, Moves
    <3>2. file.id \in 1 .. Len(devices)
      BY <3>1 DEF GoodStep, IdsAreReal, Real, Readable
    <3> QED
      BY <1>2, <3>1, <3>2 DEF GoodStep
  <2>2. ASSUME ~Registered(c) PROVE FALSE
    BY <1>0, <1>2, <2>2
      DEF Does, Left, Entered, Copied, Asked, KeyStored, WgAdded, LicenseSet, Created, Written, Moves
  <2> QED
    BY <2>1, <2>2
<1> QED
  BY <1>1, <1>2

\* Nothing forgets a failure.
LEMMA FailureStays ==
    ASSUME Effect
    PROVE  failed => failed'
<1>1. CASE Ended
  BY <1>1 DEF Ended
<1>2. CASE Started
  BY <1>2 DEF Started
<1>3. ASSUME NEW c \in Callers, Does(c) PROVE failed => failed'
  <2>1. CASE Left(c)
    BY <2>1 DEF Left
  <2>2. CASE failed' = failed
    BY <2>2
  <2> QED
    BY <1>3, <2>1, <2>2
      DEF Does, Entered, Copied, Asked, Registered, KeyStored, WgAdded, LicenseSet, Created, Written
<1> QED
  BY <1>1, <1>2, <1>3 DEF Effect

LEMMA IdentityKept ==
    ASSUME IInv, TypeInv', Effect, Observe
    PROVE  IdentityFits'
<1>1. SUFFICES ASSUME Good' PROVE IdentityOK'
  BY DEF IdentityFits
<1>2. Good /\ IdentityOK
  BY <1>1, FailureStays, MeetingsKept DEF Good, IInv, IdentityFits
<1>3. CASE Started
  <2>1. \A c \in Callers : at[c] = "idle" /\ at'[c] = "idle"
    BY <1>3 DEF Started, IInv, OpsFit, OpFits
  <2>2. (Readable => Works(file)) /\ file' = file /\ devices' = devices
    BY <1>2, <1>3, <2>1 DEF Started, IdentityOK, FileWorks
  <2> QED
    BY <2>1, <2>2 DEF IdentityOK, SourcesWork, CopiesFit, SameIdentity, FileAgrees, FileWorks, RegisterAlone,
         AppHasFile, NewDevice, Stages, Carried, Changes, Works, Real, Readable
<1>4. CASE Ended
  <2>1. \A c \in Callers : at[c] = "idle" /\ at'[c] = "idle"
    BY <1>1, <1>4 DEF Ended, Good
  <2>2. (Readable => Works(file)) /\ file' = file /\ devices' = devices
    BY <1>2, <1>4, <2>1 DEF Ended, IdentityOK, FileWorks
  <2> QED
    BY <2>1, <2>2 DEF IdentityOK, SourcesWork, CopiesFit, SameIdentity, FileAgrees, FileWorks, RegisterAlone,
         AppHasFile, NewDevice, Stages, Carried, Changes, Works, Real, Readable
<1>5. ASSUME NEW c \in Callers, Does(c) PROVE IdentityOK'
  <2>1. GoodStep(c)
    BY <1>1, <1>2, <1>5, DevicesStay DEF GoodStep, IInv
  <2>2. SourcesWork'
    BY <2>1, SourcesStillWork DEF SourcesWork
  <2>3. CopiesFit'
    BY <2>1, CopiesStillFit DEF CopiesFit
  <2>4. SameIdentity'
    BY <2>1, StillSameIdentity DEF SameIdentity
  <2>5. FileAgrees'
    BY <2>1, FileStillAgrees DEF FileAgrees
  <2>6. FileWorks'
    BY <2>1, FileStillWorks DEF FileWorks
  <2>7. RegisterAlone'
    BY <2>1, StillRegistersAlone DEF RegisterAlone
  <2>8. AppHasFile'
    BY <2>1, AppStillHasFile DEF AppHasFile
  <2>9. NewDevice'
    BY <2>1, StillNewDevice DEF NewDevice
  <2> QED
    BY <2>2, <2>3, <2>4, <2>5, <2>6, <2>7, <2>8, <2>9 DEF IdentityOK
<1> QED
  BY <1>3, <1>4, <1>5 DEF Effect

-----------------------------------------------------------------------------
(* The WireGuard device is whole.                                          *)

LEMMA OrderKept ==
    ASSUME TypeInv, OrderFits, Effect
    PROVE  OrderFits'
<1>0. /\ WgIdLast(<<>>) /\ WgIdLast(Groups) /\ WgIdLast(<<"wgKey", "wgId">>) /\ WgIdLast(<<"license">>)
      /\ WgIdLast(Present(file))
  <2>1. WgIdLast(Present(file))
    BY PresentFacts DEF TypeInv
  <2> QED
    BY <2>1 DEF WgIdLast, Groups
<1>1. CASE Started \/ Ended
  BY <1>0, <1>1 DEF Started, Ended, OrderFits
<1>2. ASSUME NEW c \in Callers, Does(c), NEW d \in Callers PROVE WgIdLast(todo[d])'
  <2>1. CASE d # c
    BY <1>2, <2>1, OthersStay DEF OrderFits
  <2>2. CASE d = c /\ \E g \in GroupSet : Copied(c, g)
    <3>1. todo'[c] = Tail(todo[c]) /\ todo[c] # <<>> /\ todo[c] \in Seq(GroupSet)
      BY <2>2 DEF Copied, Moves, TypeInv
    <3> QED
      BY <2>2, <3>1, TailOrder DEF OrderFits
  <2>3. CASE d = c /\ ~(\E g \in GroupSet : Copied(c, g))
    <3>1. todo'[c] \in {<<>>, Groups, <<"wgKey", "wgId">>, <<"license">>, Present(file)}
      BY <1>2, <2>3 DEF Does, Left, Entered, Asked, Registered, KeyStored, WgAdded, LicenseSet, Created, Written, Moves
    <3> QED
      BY <1>0, <2>3, <3>1
  <2> QED
    BY <2>1, <2>2, <2>3
<1> QED
  BY <1>1, <1>2 DEF Effect, OrderFits

\* A step of a caller, while nothing has failed and no calls that change
\* something have met.
FineStep(c) ==
    /\ IInv /\ TypeInv' /\ Does(c) /\ Observe /\ Fine /\ Fine' /\ GoodStep(c) /\ WgOK

\* The file, or a save under way, holds one record at most.
LEMMA OneDurable ==
    ASSUME NEW c \in Callers, FineStep(c)
    PROVE  /\ \A r, s \in Durable : r = s
           /\ Readable => \A d \in Callers : at[d] # "write"
           /\ \A d, e \in Callers : (at[d] = "write" /\ at[e] = "write") => d = e
<1>1. Readable => \A d \in Callers : at[d] # "write"
  BY DEF FineStep, IInv, Fine, WriterFindsBlank
<1>2. \A d, e \in Callers : (at[d] = "write" /\ at[e] = "write") => d = e
  BY DEF FineStep, IInv, Fine, MeetingsSeen, Meet
<1> QED
  BY <1>1, <1>2 DEF Durable

\* Only one caller registers a WireGuard device.
LEMMA OneRegisters ==
    ASSUME NEW c \in Callers, FineStep(c), NEW d \in Callers, Registering(d),
           NEW e \in Callers, op[e] = "RegisterWg", at[e] # "idle"
    PROVE  d = e
BY DEF FineStep, IInv, Fine, MeetingsSeen, Meet, Changing, Registering, Changes

\* The others are idle while a caller stores a new identity.
LEMMA OneEnrols ==
    ASSUME NEW c \in Callers, FineStep(c), NEW d \in Callers, op[d] \in Enrolling, Changes(d),
           NEW e \in Callers, at[e] # "idle"
    PROVE  e = d
<1>1. CASE op[d] = "Register"
  BY <1>1 DEF FineStep, GoodStep, IdentityOK, RegisterAlone
<1>2. CASE op[d] \in {"register", "enroll"}
  BY <1>2 DEF FineStep, IInv, OpsFit, OpFits, Changes, AppOps
<1> QED
  BY <1>1, <1>2 DEF Enrolling

\* There is a record when a caller of the application works on it.
LEMMA WorkersHaveFile ==
    ASSUME NEW c \in Callers, FineStep(c), NEW d \in Callers, at[d] # "idle", op[d] \in AppOps,
           at[d] = "load" \/ op[d] # "Register"
    PROVE  Durable # {}
BY DEF FineStep, GoodStep, IdentityOK, AppHasFile, Changes

\* The records that stay.
LEMMA DurableStays ==
    ASSUME NEW c \in Callers, FineStep(c), ~Created(c)
    PROVE  \A r \in Durable' : r \in Durable
<1>1. ASSUME NEW r \in Durable' PROVE r \in Durable
  <2>1. Effect
    BY DEF FineStep, Effect
  <2>2. ASSUME NEW d \in Callers, Created(d), d # c PROVE FALSE
    <3>1. at'[d] = at[d]
      BY <2>2, OthersStay DEF FineStep
    <3>2. at'[d] = "write" /\ at[d] = "assign"
      BY <2>2 DEF Created, Moves
    <3> QED
      BY <3>1, <3>2
  <2> QED
    BY <1>1, <2>1, <2>2, DurableComesFrom
<1> QED
  BY <1>1

\* A step that leaves the WireGuard device alone.
QuietStep(c) ==
    /\ FineStep(c) /\ ~Created(c) /\ ~Written(c) /\ wgDevices' = wgDevices
    /\ mem'.wgKey = mem.wgKey /\ mem'.wgId = mem.wgId
    /\ \A g \in {"wgKey", "wgId"} : ~Copied(c, g)

LEMMA QuietKnown ==
    ASSUME NEW c \in Callers, QuietStep(c)
    PROVE  WgKnown' /\ KeyFirst'
<1>0. WgKnown /\ KeyFirst /\ Does(c) /\ ~failed'
  BY DEF QuietStep, FineStep, WgOK, Fine
<1>1. Known(mem)'
  BY <1>0 DEF WgKnown, Known, QuietStep
<1>2. \A r \in Durable' : r.wgKey \in {0, wgDevices'} /\ r.wgId \in {0, wgDevices'}
  BY <1>0, DurableStays DEF WgKnown, Known, QuietStep
<1>3. ASSUME NEW d \in Callers, at'[d] = "load" PROVE Known(src[d])'
  <2>1. (at[d] = "load" /\ src'[d] = src[d]) \/ (src'[d] = file /\ Readable)
    <3>1. CASE d # c
      BY <1>0, <1>3, <3>1, OthersStay
    <3>2. CASE d = c
      BY <1>0, <1>3, <3>2
        DEF Does, Left, Entered, Copied, Asked, Registered, KeyStored, WgAdded, LicenseSet, Created, Written, Moves
    <3> QED
      BY <3>1, <3>2
  <2>2. Readable => Known(file)
    BY <1>0 DEF WgKnown, Durable
  <2> QED
    BY <1>0, <2>1, <2>2 DEF WgKnown, Known, QuietStep
<1>4. ASSUME NEW e \in Callers, Enrols(e) PROVE Enrols(e)'
  <2>1. CASE e # c
    BY <1>0, <1>4, <2>1, OthersStay DEF Enrols
  <2>2. CASE e = c
    <3>1. ~Left(c)
      BY <1>0, <1>4, <2>2 DEF Left, Enrols
    <3>2. at[c] = "assign"
      BY <1>4, <2>2 DEF Enrols
    <3>3. \E g \in GroupSet : Copied(c, g)
      BY <1>0, <3>1, <3>2
        DEF QuietStep, Does, Entered, Asked, Registered, KeyStored, WgAdded, LicenseSet
    <3> QED
      BY <1>4, <2>2, <3>3 DEF Copied, Moves, Enrols
  <2> QED
    BY <2>1, <2>2
<1>5. KeyFirst'
  BY <1>0, <1>4 DEF KeyFirst, QuietStep
<1> QED
  BY <1>1, <1>2, <1>3, <1>5 DEF WgKnown, Known

LEMMA QuietFile ==
    ASSUME NEW c \in Callers, QuietStep(c)
    PROVE  FileWhole'
<1>0. FileWhole /\ Does(c) /\ ~failed' /\ RegistersFit(c) /\ OpFits(c)
  BY DEF QuietStep, FineStep, WgOK, Fine, IInv, OpsFit
<1>1. \A r \in Durable' : r \in Durable
  BY DurableStays DEF QuietStep
<1>2. \A r \in Durable' : r.wgKey = 0 => r.wgId = 0
  BY <1>0, <1>1 DEF FileWhole
<1>3. ASSUME \A d \in Callers : ~Registering(d)'
      PROVE  (\A r \in Durable' : r.wgKey = r.wgId) /\ (mem'.wgKey # 0 => \A r \in Durable' : r.wgKey # 0)
  <2>1. CASE \A d \in Callers : ~Registering(d)
    BY <1>0, <1>1, <2>1 DEF FileWhole, QuietStep
  <2>2. ASSUME NEW d \in Callers, Registering(d)
        PROVE  (\A r \in Durable' : r.wgKey = r.wgId) /\ mem'.wgKey = 0
    <3>1. d = c
      BY <1>0, <1>3, <2>2, OthersStay DEF Registering, Changes
    <3>2. Left(c) /\ at[c] = "ask"
      <4>1. op[c] = "RegisterWg" /\ at[c] \in {"ask", "assign", "write"}
        <5>1. op[c] = "RegisterWg" /\ at[c] \notin {"idle", "load"}
          BY <2>2, <3>1 DEF Registering, Changes
        <5>2. at[c] \in Places /\ at[c] \notin {"register", "enroll"}
          BY <1>0, <5>1 DEF OpFits, Registers, Enrolling, QuietStep, FineStep, IInv, TypeInv
        <5> QED
          BY <5>1, <5>2 DEF Places
      <4>2. op'[c] = "RegisterWg" => at'[c] \in {"idle", "load"}
        BY <1>3 DEF Registering, Changes
      <4>3. Left(c)
        BY <1>0, <4>1, <4>2
          DEF QuietStep, Does, Entered, Copied, Asked, Registered, KeyStored, WgAdded, LicenseSet, Moves
      <4>4. at[c] \notin {"assign", "write"}
        BY <1>0, <4>3 DEF Left
      <4> QED
        BY <4>1, <4>3, <4>4
    <3>3. mem.wgKey = 0 /\ \A r \in Durable : r.wgKey = 0
      BY <1>0, <2>2, <3>1, <3>2 DEF Registering, RegistersFit
    <3> QED
      BY <1>0, <1>1, <3>3 DEF FileWhole, QuietStep
  <2> QED
    BY <2>1, <2>2
<1> QED
  BY <1>2, <1>3 DEF FileWhole

LEMMA QuietCallers ==
    ASSUME NEW c \in Callers, QuietStep(c), NEW d \in Callers
    PROVE  LoaderFits(d)' /\ RegistersFit(d)' /\ EnrolsFit(d)'
<1>0. /\ Does(c) /\ ~failed' /\ RegistersFit(d) /\ LoaderFits(d) /\ EnrolsFit(d) /\ OpFits(c)
      /\ wgDevices' = wgDevices /\ mem'.wgKey = mem.wgKey /\ mem'.wgId = mem.wgId
  BY DEF QuietStep, FineStep, WgOK, Fine, IInv, OpsFit
<1>1. \A r \in Durable' : r \in Durable
  BY DurableStays DEF QuietStep
<1>2. CASE at'[d] = at[d] /\ src'[d] = src[d] /\ op'[d] = op[d] /\ \A g \in {"wgKey", "wgId"} : Carried(d, g)' => Carried(d, g)
  <2>1. LoaderFits(d)'
    BY <1>0, <1>1, <1>2 DEF LoaderFits
  <2>2. RegistersFit(d)'
    BY <1>0, <1>1, <1>2 DEF RegistersFit
  <2>3. EnrolsFit(d)'
    BY <1>0, <1>1, <1>2 DEF EnrolsFit, Enrols
  <2> QED
    BY <2>1, <2>2, <2>3
<1>3. CASE d # c
  <2>1. at'[d] = at[d] /\ src'[d] = src[d] /\ op'[d] = op[d] /\ todo'[d] = todo[d]
    BY <1>0, <1>3, OthersStay
  <2> QED
    BY <1>2, <2>1 DEF Carried, Pending
<1>4. CASE d = c
  <2>1. CASE Left(c) \/ Registered(c)
    BY <1>4, <2>1 DEF Left, Registered, Moves, LoaderFits, RegistersFit, EnrolsFit, Enrols
  <2>2. ASSUME NEW o \in AppOps \cup CliOps, Entered(c, o)
        PROVE  LoaderFits(d)' /\ RegistersFit(d)' /\ EnrolsFit(d)'
    <3>1. CASE Moves(c, "register", file, <<>>)
      BY <1>4, <3>1 DEF Moves, LoaderFits, RegistersFit, EnrolsFit, Enrols
    <3>2. CASE Readable /\ Moves(c, "load", file, Present(file))
      <4>1. at'[c] = "load" /\ src'[c] = file /\ todo'[c] = Present(file)
        BY <3>2 DEF Moves
      <4>2. RegistersFit(d)' /\ EnrolsFit(d)'
        BY <1>4, <4>1 DEF RegistersFit, EnrolsFit, Enrols
      <4>3. file.wgKey = 0 => file.wgId = 0
        BY <3>2 DEF Durable, QuietStep, FineStep, WgOK, FileWhole
      <4>4. ASSUME file.wgKey # 0 PROVE "wgKey" \in Pending(c)' /\ \A r \in Durable' : r.wgKey # 0
        <5>1. "wgKey" \in Range(Present(file))
          BY <4>4, PresentFacts DEF QuietStep, FineStep, IInv, TypeInv
        <5>2. \A r \in Durable : r = file
          BY <3>2, OneDurable DEF QuietStep, Durable
        <5> QED
          BY <1>1, <4>1, <4>4, <5>1, <5>2 DEF Pending
      <4> QED
        BY <1>4, <4>1, <4>2, <4>3, <4>4 DEF LoaderFits, Carried
    <3> QED
      BY <2>2, <3>1, <3>2 DEF Entered
  <2>3. ASSUME NEW g \in GroupSet, Copied(c, g)
        PROVE  LoaderFits(d)' /\ RegistersFit(d)' /\ EnrolsFit(d)'
    <3>1. g \notin {"wgKey", "wgId"}
      BY <2>3 DEF QuietStep
    <3>2. at'[d] = at[d] /\ src'[d] = src[d] /\ op'[d] = op[d] /\ Pending(d) = {g} \cup Pending(d)'
      BY <1>4, <2>3 DEF Copied, Moves, Pending
    <3>3. \A h \in {"wgKey", "wgId"} : Carried(d, h)' => Carried(d, h)
      BY <3>1, <3>2 DEF Carried
    <3> QED
      BY <1>2, <3>2, <3>3
  <2>4. ASSUME NEW place \in Places, Asked(c, place)
        PROVE  LoaderFits(d)' /\ RegistersFit(d)' /\ EnrolsFit(d)'
    <3>1. at'[c] = place /\ place \in {"register", "enroll", "ask"} /\ op' = op /\ at[c] = "load" /\ todo[c] = <<>>
          /\ mem' = mem /\ (op[c] = "RegisterWg" => mem.wgKey = 0)
      BY <2>4 DEF Asked, Moves
    <3>2. LoaderFits(d)' /\ EnrolsFit(d)'
      BY <1>4, <3>1 DEF LoaderFits, EnrolsFit, Enrols
    <3>3. ASSUME op[c] = "RegisterWg" PROVE mem.wgId = 0 /\ \A r \in Durable : r.wgKey = 0
      <4>1. mem.wgKey = 0 /\ op[c] \in Savers /\ Carried(c, "wgKey")
        BY <3>1, <3>3, RangesOfGroups DEF Savers, Carried, Pending
      <4>2. \A r \in Durable : r.wgKey = 0
        BY <4>1 DEF QuietStep, FineStep, IInv, WgKept, Fine
      <4>3. ASSUME NEW e \in Callers, Enrols(e) PROVE FALSE
        <5>1. c = e
          BY <3>1, <4>3, OneEnrols DEF QuietStep, Enrols, Changes
        <5> QED
          BY <3>1, <4>3, <5>1 DEF Enrols
      <4>4. mem.wgId = 0
        BY <4>1, <4>3 DEF QuietStep, FineStep, WgOK, KeyFirst
      <4> QED
        BY <4>2, <4>4
    <3>4. RegistersFit(d)'
      BY <1>1, <1>4, <3>1, <3>3 DEF RegistersFit
    <3> QED
      BY <3>2, <3>4
  <2>5. ASSUME NEW key \in 0 .. MaxDevices, KeyStored(c, key)
        PROVE  LoaderFits(d)' /\ RegistersFit(d)' /\ EnrolsFit(d)'
    <3>1. /\ at'[c] = "assign" /\ op'[c] \in Enrolling /\ todo'[c] = Groups
          /\ src'[c].wgKey = 0 /\ src'[c].wgId = 0
      BY <1>0, <2>5 DEF KeyStored, Moves, OpFits
    <3>2. "wgKey" \in Pending(c)' /\ "wgId" \in Pending(c)'
      BY <3>1, RangesOfGroups DEF Pending, GroupSet
    <3>3. LoaderFits(d)' /\ RegistersFit(d)'
      BY <1>4, <3>1 DEF LoaderFits, RegistersFit, Enrolling
    <3>4. EnrolsFit(d)'
      BY <1>4, <3>1, <3>2 DEF EnrolsFit, Carried
    <3> QED
      BY <3>3, <3>4
  <2>6. CASE WgAdded(c)
    <3>1. wgDevices' = wgDevices + 1 /\ wgDevices \in Nat
      BY <2>6 DEF WgAdded, QuietStep, FineStep, IInv, TypeInv
    <3> QED
      BY <1>0, <3>1
  <2>7. CASE LicenseSet(c)
    <3>1. at'[c] = "assign" /\ op'[c] \in LicenseOps
      BY <2>7 DEF LicenseSet, Moves
    <3> QED
      BY <1>4, <3>1 DEF LoaderFits, RegistersFit, EnrolsFit, Enrols, LicenseOps, Enrolling
  <2> QED
    BY <1>0, <1>4, <2>1, <2>2, <2>3, <2>4, <2>5, <2>6, <2>7 DEF QuietStep, Does
<1> QED
  BY <1>3, <1>4

\* One half of the device gets into AppConfig.
LEMMA CopiedHalf ==
    ASSUME NEW c \in Callers, FineStep(c), NEW g \in {"wgKey", "wgId"}, Copied(c, g)
    PROVE  WgOK'
<1>0. /\ TodoFit(c) /\ RegistersFit(c) /\ LoaderFits(c) /\ EnrolsFit(c) /\ WgKnown /\ KeyFirst /\ FileWhole
      /\ Does(c) /\ OpFits(c)
  BY DEF FineStep, WgOK, IInv, TodoFits, OpsFit
<1>1. /\ at[c] \in {"load", "assign"} /\ at' = at /\ src' = src /\ op' = op /\ wgDevices' = wgDevices
      /\ mem'[g] = src[c][g] /\ g \in Pending(c) /\ Pending(c) = {g} \cup Pending(c)'
      /\ \A h \in {"wgKey", "wgId"} : h # g => mem'[h] = mem[h]
  <2>1. at' = at /\ src' = src
    <3>1. at \in [Callers -> Places] /\ at' \in [Callers -> Places]
          /\ src \in [Callers -> Records] /\ src' \in [Callers -> Records]
      BY DEF FineStep, IInv, TypeInv, Copied, Moves
    <3>2. \A d \in Callers : at'[d] = at[d] /\ src'[d] = src[d]
      BY DEF Copied, Moves
    <3> QED
      BY <3>1, <3>2
  <2> QED
    BY <2>1 DEF Copied, Moves, Pending, GroupSet
<1>2. \A r \in Durable' : r \in Durable
  <2>1. ~Created(c)
    BY <1>1 DEF Created, Moves
  <2> QED
    BY <2>1, DurableStays
<1>3. \A d \in Callers : \A h \in {"wgKey", "wgId"} :
        Carried(d, h)' => (Carried(d, h) \/ (d = c /\ h = g))
  <2>1. \A d \in Callers : d # c => todo'[d] = todo[d]
    BY <1>0, OthersStay
  <2> QED
    BY <1>1, <2>1 DEF Carried, Pending
<1>4. g = "wgId" => Carried(c, "wgKey")
  <2>1. SUFFICES ASSUME g = "wgId" PROVE "wgKey" \notin Pending(c)
    BY <1>1 DEF Carried
  <2>2. todo[c] # <<>> /\ Head(todo[c]) = "wgId" /\ todo'[c] = Tail(todo[c])
    BY <2>1 DEF Copied, Moves
  <2>3. Tail(todo[c]) = <<>>
    BY <2>2, TailOrder DEF FineStep, IInv, OrderFits, TypeInv
  <2>4. Pending(c)' = {}
    BY <2>2, <2>3, RangesOfGroups DEF Pending
  <2> QED
    BY <1>1, <2>1, <2>4
<1>5. \A d \in Callers : Registering(d)' = Registering(d) /\ Enrols(d)' = Enrols(d)
  BY <1>1 DEF Registering, Changes, Enrols
<1>6. \A d \in Callers : LoaderFits(d) /\ RegistersFit(d) /\ EnrolsFit(d)
  BY DEF FineStep, WgOK
<1>7. ASSUME mem'.wgKey # 0, mem'[g] = wgDevices,
             \A d \in Callers : (op[d] = "RegisterWg" /\ at[d] = "ask") => FALSE,
             \A d \in Callers : ~Enrols(d),
             (\A d \in Callers : ~Registering(d)) => \A r \in Durable : r.wgKey # 0
      PROVE  WgOK'
  <2>1. WgKnown'
    <3>1. mem'.wgKey \in {0, wgDevices} /\ mem'.wgId \in {0, wgDevices}
      BY <1>0, <1>1, <1>7 DEF WgKnown, Known
    <3> QED
      BY <1>0, <1>1, <1>2, <3>1 DEF WgKnown, Known
  <2>2. KeyFirst'
    BY <1>7 DEF KeyFirst
  <2>3. FileWhole'
    BY <1>0, <1>2, <1>5, <1>7 DEF FileWhole
  <2>4. ASSUME NEW d \in Callers PROVE LoaderFits(d)'
    BY <1>1, <1>2, <1>6, <1>7 DEF LoaderFits
  <2>5. ASSUME NEW d \in Callers PROVE RegistersFit(d)'
    <3>1. SUFFICES ASSUME op[d] = "RegisterWg"
                   PROVE  /\ at[d] = "assign" =>
                             /\ src[d].wgKey = wgDevices /\ src[d].wgId = wgDevices
                             /\ \A h \in {"wgKey", "wgId"} : Carried(d, h)' => mem'[h] = wgDevices
                          /\ at[d] = "write" => (src[d].wgKey = wgDevices /\ src[d].wgId = wgDevices /\ wgDevices # 0)
      BY <1>1, <1>7 DEF RegistersFit
    <3>2. RegistersFit(d)
      BY <1>6
    <3>3. ASSUME NEW h \in {"wgKey", "wgId"}, Carried(d, h)', at[d] = "assign" PROVE mem'[h] = wgDevices
      <4>1. CASE h = g
        BY <1>7, <4>1
      <4>2. CASE h # g
        BY <1>1, <1>3, <3>1, <3>2, <3>3, <4>2 DEF RegistersFit
      <4> QED
        BY <4>1, <4>2
    <3> QED
      BY <3>1, <3>2, <3>3 DEF RegistersFit
  <2>6. ASSUME NEW d \in Callers PROVE EnrolsFit(d)'
    BY <1>5, <1>7 DEF EnrolsFit
  <2> QED
    BY <2>1, <2>2, <2>3, <2>4, <2>5, <2>6 DEF WgOK
<1>8. CASE at[c] = "load"
  <2>1. src[c][g] # 0
    BY <1>0, <1>1, <1>8 DEF TodoFit
  <2>2. src[c].wgKey # 0 /\ src[c][g] = wgDevices
    BY <1>0, <1>8, <2>1 DEF LoaderFits, WgKnown, Known
  <2>3. \A r \in Durable : r.wgKey # 0
    BY <1>0, <1>8, <2>2 DEF LoaderFits
  <2>4. mem'.wgKey # 0
    BY <1>0, <1>1, <1>4, <1>8, <2>1, <2>2 DEF LoaderFits
  <2>5. ASSUME NEW d \in Callers, op[d] = "RegisterWg", at[d] = "ask" PROVE FALSE
    <3>1. Durable # {}
      BY <2>5, WorkersHaveFile DEF AppOps
    <3> QED
      BY <1>6, <2>3, <2>5, <3>1 DEF RegistersFit
  <2>6. ASSUME NEW d \in Callers, Enrols(d) PROVE FALSE
    <3>1. c = d
      BY <1>8, <2>6, OneEnrols DEF Enrols, Changes
    <3> QED
      BY <1>8, <2>6, <3>1 DEF Enrols
  <2> QED
    BY <1>1, <1>7, <2>2, <2>3, <2>4, <2>5, <2>6
<1>9. CASE at[c] = "assign" /\ op[c] = "RegisterWg"
  <2>1. src[c].wgKey = wgDevices /\ src[c].wgId = wgDevices /\ wgDevices # 0
    BY <1>0, <1>9 DEF RegistersFit, TodoFit
  <2>2. mem'[g] = wgDevices
    BY <1>1, <2>1
  <2>3. mem'.wgKey # 0
    BY <1>0, <1>1, <1>4, <1>9, <2>1, <2>2 DEF RegistersFit
  <2>4. Registering(c)
    BY <1>9 DEF Registering, Changes
  <2>5. ASSUME NEW d \in Callers, op[d] = "RegisterWg", at[d] = "ask" PROVE FALSE
    <3>1. d = c
      BY <2>4, <2>5, OneRegisters
    <3> QED
      BY <1>9, <2>5, <3>1
  <2>6. ASSUME NEW d \in Callers, Enrols(d) PROVE FALSE
    <3>1. c = d
      BY <1>9, <2>6, OneEnrols DEF Enrols, Changes
    <3> QED
      BY <1>9, <2>6, <3>1 DEF Enrols, Enrolling
  <2> QED
    BY <1>7, <2>2, <2>3, <2>4, <2>5, <2>6
<1>10. CASE at[c] = "assign" /\ op[c] \in Enrolling
  <2>1. Enrols(c) /\ Changes(c)
    BY <1>10 DEF Enrols, Changes
  <2>2. src[c].wgKey = 0 /\ src[c].wgId = 0 /\ mem'[g] = 0
    BY <1>0, <1>1, <2>1 DEF EnrolsFit
  <2>3. \A d \in Callers : at[d] # "idle" => d = c
    BY <1>10, <2>1, OneEnrols
  <2>4. WgKnown'
    <3>1. mem'.wgKey \in {0, wgDevices} /\ mem'.wgId \in {0, wgDevices}
      BY <1>0, <1>1, <2>2 DEF WgKnown, Known
    <3> QED
      BY <1>0, <1>1, <1>2, <3>1 DEF WgKnown, Known
  <2>5. KeyFirst'
    BY <1>5, <2>1 DEF KeyFirst
  <2>6. FileWhole'
    <3>1. mem'.wgKey # 0 => mem.wgKey # 0
      BY <1>1, <2>2
    <3> QED
      BY <1>0, <1>2, <1>5, <3>1 DEF FileWhole
  <2>7. ASSUME NEW d \in Callers PROVE LoaderFits(d)' /\ RegistersFit(d)'
    <3>1. d # c => at'[d] = "idle"
      BY <1>1, <2>3
    <3>2. at'[c] = "assign" /\ op'[c] # "RegisterWg"
      BY <1>1, <1>10 DEF Enrolling
    <3> QED
      BY <3>1, <3>2 DEF LoaderFits, RegistersFit
  <2>8. ASSUME NEW d \in Callers PROVE EnrolsFit(d)'
    <3>1. CASE d = c
      <4>1. \A h \in {"wgKey", "wgId"} : Carried(c, h)' => mem'[h] = 0
        BY <1>0, <1>1, <1>3, <2>1, <2>2 DEF EnrolsFit
      <4> QED
        BY <1>1, <2>2, <3>1, <4>1 DEF EnrolsFit
    <3>2. CASE d # c
      <4>1. at'[d] = "idle"
        BY <1>1, <2>3, <3>2
      <4> QED
        BY <4>1 DEF EnrolsFit, Enrols
    <3> QED
      BY <3>1, <3>2
  <2> QED
    BY <2>4, <2>5, <2>6, <2>7, <2>8 DEF WgOK
<1>11. ~(at[c] = "assign" /\ op[c] \in LicenseOps)
  BY <1>0, <1>1 DEF TodoFit
<1> QED
  BY <1>0, <1>1, <1>8, <1>9, <1>10, <1>11 DEF OpFits, Savers, LicenseOps

\* A device is registered.
LEMMA AddedDevice ==
    ASSUME NEW c \in Callers, FineStep(c), WgAdded(c)
    PROVE  WgOK'
<1>0. /\ RegistersFit(c) /\ WgKnown /\ FileWhole /\ Does(c) /\ wgDevices \in Nat
      /\ \A d \in Callers : LoaderFits(d)
  BY DEF FineStep, WgOK, IInv, TypeInv
<1>1. /\ at[c] = "ask" /\ op[c] = "RegisterWg" /\ op' = op /\ mem' = mem /\ wgDevices' = wgDevices + 1
      /\ at'[c] = "assign" /\ src'[c].wgKey = wgDevices' /\ src'[c].wgId = wgDevices' /\ todo'[c] = <<"wgKey", "wgId">>
  BY DEF WgAdded, Moves
<1>2. mem.wgKey = 0 /\ mem.wgId = 0 /\ \A r \in Durable : r.wgKey = 0 /\ r.wgId = 0
  BY <1>0, <1>1 DEF RegistersFit, FileWhole
<1>3. \A r \in Durable' : r \in Durable
  <2>1. ~Created(c)
    BY <1>1 DEF Created
  <2> QED
    BY <2>1, DurableStays
<1>4. \A d \in Callers : d # c => at'[d] = at[d] /\ src'[d] = src[d] /\ todo'[d] = todo[d]
  BY <1>0, OthersStay
<1>5. ASSUME NEW d \in Callers, at[d] = "load" PROVE src[d].wgKey = 0 /\ src[d].wgId = 0
  <2>1. Durable # {}
    BY <1>1, WorkersHaveFile DEF AppOps
  <2> QED
    BY <1>0, <1>2, <1>5, <2>1 DEF LoaderFits
<1>6. ASSUME NEW d \in Callers, Enrols(d) PROVE FALSE
  <2>1. c = d
    BY <1>1, <1>6, OneEnrols DEF Enrols, Changes
  <2> QED
    BY <1>1, <1>6, <2>1 DEF Enrols
<1>7. WgKnown'
  <2>1. Known(mem)' /\ \A r \in Durable' : r.wgKey \in {0, wgDevices'} /\ r.wgId \in {0, wgDevices'}
    BY <1>1, <1>2, <1>3 DEF Known
  <2>2. ASSUME NEW d \in Callers, at'[d] = "load" PROVE Known(src[d])'
    <3>1. d # c
      BY <1>1, <2>2
    <3> QED
      BY <1>4, <1>5, <2>2, <3>1 DEF Known
  <2> QED
    BY <2>1, <2>2 DEF WgKnown, Known
<1>8. KeyFirst'
  BY <1>1, <1>2 DEF KeyFirst
<1>9. FileWhole'
  <2>1. Registering(c)'
    BY <1>1 DEF Registering, Changes
  <2> QED
    BY <1>2, <1>3, <2>1 DEF FileWhole
<1>10. ASSUME NEW d \in Callers PROVE LoaderFits(d)' /\ RegistersFit(d)' /\ EnrolsFit(d)'
  <2>1. CASE d = c
    <3>1. "wgKey" \in Pending(c)' /\ "wgId" \in Pending(c)'
      BY <1>1, RangesOfGroups DEF Pending
    <3>2. RegistersFit(d)'
      BY <1>1, <2>1, <3>1 DEF RegistersFit, Carried
    <3> QED
      BY <1>1, <2>1, <3>2 DEF LoaderFits, EnrolsFit, Enrols, Enrolling
  <2>2. CASE d # c
    <3>1. LoaderFits(d)'
      BY <1>4, <1>5, <2>2 DEF LoaderFits
    <3>2. RegistersFit(d)'
      <4>1. Registering(c)
        BY <1>1 DEF Registering, Changes
      <4>2. op[d] = "RegisterWg" => at[d] = "idle"
        BY <2>2, <4>1, OneRegisters
      <4> QED
        BY <1>1, <1>4, <2>2, <4>2 DEF RegistersFit
    <3>3. EnrolsFit(d)'
      BY <1>1, <1>4, <1>6, <2>2 DEF EnrolsFit, Enrols
    <3> QED
      BY <3>1, <3>2, <3>3
  <2> QED
    BY <2>1, <2>2
<1> QED
  BY <1>7, <1>8, <1>9, <1>10 DEF WgOK

\* A save takes its copy of AppConfig.
LEMMA CreatedRecord ==
    ASSUME NEW c \in Callers, FineStep(c), Created(c)
    PROVE  WgOK'
<1>0. /\ RegistersFit(c) /\ EnrolsFit(c) /\ WgKnown /\ KeyFirst /\ FileWhole /\ Does(c) /\ OpFits(c) /\ TodoFit(c)
      /\ \A d \in Callers : LoaderFits(d) /\ RegistersFit(d) /\ EnrolsFit(d)
  BY DEF FineStep, WgOK, IInv, TodoFits, OpsFit
<1>1. /\ at[c] = "assign" /\ todo[c] = <<>> /\ at'[c] = "write" /\ src'[c] = mem /\ file' = Blank
      /\ op' = op /\ mem' = mem /\ wgDevices' = wgDevices
  BY DEF Created, Moves
<1>2. \A g \in {"wgKey", "wgId"} : Carried(c, g)
  BY <1>1, RangesOfGroups DEF Carried, Pending
<1>3. \A d \in Callers : d # c => at'[d] = at[d] /\ src'[d] = src[d] /\ todo'[d] = todo[d]
  BY <1>0, OthersStay
<1>4. \A r \in Durable' : r = mem
  <2>1. \A d \in Callers : at'[d] = "write" => d = c
    <3>1. MeetingsSeen' /\ overlaps' = {}
      BY MeetingsKept DEF FineStep, Fine
    <3> QED
      BY <1>1, <3>1 DEF MeetingsSeen, Meet
  <2> QED
    BY <1>1, <2>1 DEF Durable, Readable
<1>5. op[c] \in Savers \/ op[c] \in Enrolling
  BY <1>0, <1>1 DEF OpFits
<1>6. ASSUME op[c] \in Enrolling PROVE mem.wgKey = 0 /\ mem.wgId = 0 /\ \A d \in Callers : at[d] # "idle" => d = c
  <2>1. Enrols(c) /\ Changes(c)
    BY <1>1, <1>6 DEF Enrols, Changes
  <2>2. mem.wgKey = 0 /\ mem.wgId = 0
    BY <1>0, <1>2, <2>1 DEF EnrolsFit
  <2> QED
    BY <1>6, <2>1, <2>2, OneEnrols
<1>7. ASSUME op[c] \in Savers
      PROVE  /\ \A d \in Callers : ~Enrols(d)
             /\ Durable # {}
             /\ \A g \in {"wgKey", "wgId"} : (\A r \in Durable : r[g] # 0) => mem[g] # 0
  <2>1. ASSUME NEW d \in Callers, Enrols(d) PROVE FALSE
    <3>1. c = d
      BY <1>1, <2>1, OneEnrols DEF Enrols, Changes
    <3> QED
      BY <1>7, <2>1, <3>1 DEF Enrols, Savers, Enrolling
  <2>2. Durable # {}
    BY <1>1, <1>7, WorkersHaveFile DEF Savers, AppOps
  <2>3. ASSUME NEW g \in {"wgKey", "wgId"}, \A r \in Durable : r[g] # 0 PROVE mem[g] # 0
    <3>1. \E r \in Durable : r[g] # 0
      BY <2>2, <2>3
    <3> QED
      BY <1>2, <1>7, <3>1 DEF FineStep, IInv, WgKept, Fine
  <2> QED
    BY <2>1, <2>2, <2>3
<1>8. mem.wgKey = 0 => mem.wgId = 0
  BY <1>0, <1>5, <1>6, <1>7 DEF KeyFirst
<1>9. ASSUME \A d \in Callers : ~Registering(d)' PROVE mem.wgKey = mem.wgId
  <2>1. CASE op[c] \in Enrolling
    BY <1>6, <2>1
  <2>2. CASE op[c] \in Savers
    <3>1. \A d \in Callers : ~Registering(d)
      BY <1>1, <1>3, <1>9 DEF Registering, Changes
    <3>2. CASE mem.wgKey = 0
      BY <1>8, <3>2
    <3>3. CASE mem.wgKey # 0
      <4>1. \A r \in Durable : r.wgId # 0
        BY <1>0, <3>1, <3>3 DEF FileWhole
      <4>2. mem.wgId # 0
        BY <1>7, <2>2, <4>1
      <4> QED
        BY <1>0, <3>3, <4>2 DEF WgKnown, Known
    <3> QED
      BY <3>2, <3>3
  <2> QED
    BY <1>5, <2>1, <2>2
<1>10. WgKnown'
  <2>1. Known(mem)' /\ \A r \in Durable' : r.wgKey \in {0, wgDevices'} /\ r.wgId \in {0, wgDevices'}
    BY <1>0, <1>1, <1>4 DEF WgKnown, Known
  <2>2. ASSUME NEW d \in Callers, at'[d] = "load" PROVE Known(src[d])'
    <3>1. d # c
      BY <1>1, <2>2
    <3> QED
      BY <1>0, <1>1, <1>3, <2>2, <3>1 DEF WgKnown, Known
  <2> QED
    BY <2>1, <2>2 DEF WgKnown, Known
<1>11. KeyFirst'
  BY <1>1, <1>8 DEF KeyFirst
<1>12. FileWhole'
  BY <1>1, <1>4, <1>8, <1>9 DEF FileWhole
<1>13. ASSUME NEW d \in Callers PROVE LoaderFits(d)' /\ RegistersFit(d)' /\ EnrolsFit(d)'
  <2>1. CASE d = c
    <3>1. op[c] = "RegisterWg" => mem.wgKey = wgDevices /\ mem.wgId = wgDevices /\ wgDevices # 0
      BY <1>0, <1>1, <1>2 DEF RegistersFit, TodoFit
    <3>2. RegistersFit(d)'
      BY <1>1, <2>1, <3>1 DEF RegistersFit
    <3> QED
      BY <1>1, <2>1, <3>2 DEF LoaderFits, EnrolsFit, Enrols
  <2>2. CASE d # c
    <3>0. at'[d] = at[d] /\ src'[d] = src[d] /\ \A g \in {"wgKey", "wgId"} : Carried(d, g)' = Carried(d, g)
      BY <1>3, <2>2 DEF Carried, Pending
    <3>1. LoaderFits(d)'
      <4>1. SUFFICES ASSUME at[d] = "load"
                     PROVE  /\ src[d].wgKey # 0 => mem.wgKey # 0
                            /\ src[d].wgKey = 0 => src[d].wgId = 0
        BY <1>1, <1>4, <3>0 DEF LoaderFits
      <4>2. op[c] \in Savers
        BY <1>5, <1>6, <2>2, <4>1
      <4> QED
        BY <1>0, <1>7, <4>1, <4>2 DEF LoaderFits
    <3>2. RegistersFit(d)'
      BY <1>0, <1>1, <1>4, <3>0 DEF RegistersFit
    <3>3. EnrolsFit(d)'
      BY <1>0, <1>1, <3>0 DEF EnrolsFit, Enrols
    <3> QED
      BY <3>1, <3>2, <3>3
  <2> QED
    BY <2>1, <2>2
<1> QED
  BY <1>10, <1>11, <1>12, <1>13 DEF WgOK

\* A save ends.
LEMMA WrittenRecord ==
    ASSUME NEW c \in Callers, FineStep(c), Written(c)
    PROVE  WgOK'
<1>0. /\ RegistersFit(c) /\ WgKnown /\ KeyFirst /\ FileWhole /\ Does(c)
      /\ \A d \in Callers : LoaderFits(d) /\ RegistersFit(d) /\ EnrolsFit(d)
  BY DEF FineStep, WgOK
<1>1. /\ at[c] = "write" /\ at'[c] = "idle" /\ op' = op /\ mem' = mem /\ wgDevices' = wgDevices
  BY DEF Written, Moves
<1>2. \A d \in Callers : d # c => at'[d] = at[d] /\ src'[d] = src[d] /\ todo'[d] = todo[d]
  BY <1>0, OthersStay
<1>3. \A r \in Durable' : r \in Durable /\ r = src[c]
  <2>1. ~Created(c)
    BY <1>1 DEF Created
  <2>2. src[c] \in Durable
    BY <1>1 DEF Durable
  <2> QED
    BY <2>1, <2>2, DurableStays, OneDurable
<1>4. WgKnown'
  <2>1. Known(mem)' /\ \A r \in Durable' : r.wgKey \in {0, wgDevices'} /\ r.wgId \in {0, wgDevices'}
    BY <1>0, <1>1, <1>3 DEF WgKnown, Known
  <2>2. ASSUME NEW d \in Callers, at'[d] = "load" PROVE Known(src[d])'
    <3>1. d # c
      BY <1>1, <2>2
    <3> QED
      BY <1>0, <1>1, <1>2, <2>2, <3>1 DEF WgKnown, Known
  <2> QED
    BY <2>1, <2>2 DEF WgKnown, Known
<1>5. KeyFirst'
  <2>1. ASSUME NEW e \in Callers, Enrols(e) PROVE Enrols(e)'
    <3>1. e # c
      BY <1>1, <2>1 DEF Enrols
    <3> QED
      BY <1>1, <1>2, <2>1, <3>1 DEF Enrols
  <2> QED
    BY <1>0, <1>1, <2>1 DEF KeyFirst
<1>6. FileWhole'
  <2>1. \A r \in Durable' : r.wgKey = 0 => r.wgId = 0
    BY <1>0, <1>3 DEF FileWhole
  <2>2. ASSUME \A d \in Callers : ~Registering(d)'
        PROVE  (\A r \in Durable' : r.wgKey = r.wgId) /\ (mem'.wgKey # 0 => \A r \in Durable' : r.wgKey # 0)
    <3>1. CASE \A d \in Callers : ~Registering(d)
      BY <1>0, <1>1, <1>3, <3>1 DEF FileWhole
    <3>2. ASSUME NEW e \in Callers, Registering(e)
          PROVE  \A r \in Durable' : r.wgKey = r.wgId /\ r.wgKey # 0
      <4>1. e = c
        BY <1>1, <1>2, <2>2, <3>2 DEF Registering, Changes
      <4> QED
        BY <1>0, <1>1, <1>3, <3>2, <4>1 DEF Registering, RegistersFit
    <3> QED
      BY <3>1, <3>2
  <2> QED
    BY <2>1, <2>2 DEF FileWhole
<1>7. ASSUME NEW d \in Callers PROVE LoaderFits(d)' /\ RegistersFit(d)' /\ EnrolsFit(d)'
  <2>1. CASE d = c
    BY <1>1, <2>1 DEF LoaderFits, RegistersFit, EnrolsFit, Enrols
  <2>2. CASE d # c
    <3>0. at'[d] = at[d] /\ src'[d] = src[d] /\ \A g \in {"wgKey", "wgId"} : Carried(d, g)' = Carried(d, g)
      BY <1>2, <2>2 DEF Carried, Pending
    <3>1. LoaderFits(d)'
      BY <1>0, <1>1, <1>3, <3>0 DEF LoaderFits
    <3>2. RegistersFit(d)'
      BY <1>0, <1>1, <1>3, <3>0 DEF RegistersFit
    <3>3. EnrolsFit(d)'
      BY <1>0, <1>1, <3>0 DEF EnrolsFit, Enrols
    <3> QED
      BY <3>1, <3>2, <3>3
  <2> QED
    BY <2>1, <2>2
<1> QED
  BY <1>4, <1>5, <1>6, <1>7 DEF WgOK

\* A step that touches neither the WireGuard device nor the file.
LEMMA QuietOrNot ==
    ASSUME NEW c \in Callers, FineStep(c)
    PROVE  \/ QuietStep(c) \/ WgAdded(c) \/ Created(c) \/ Written(c)
           \/ \E g \in {"wgKey", "wgId"} : Copied(c, g)
<1>0. Does(c) /\ ~failed'
  BY DEF FineStep, Fine
<1>1. SUFFICES ASSUME ~WgAdded(c), ~Created(c), ~Written(c), \A g \in {"wgKey", "wgId"} : ~Copied(c, g)
               PROVE  wgDevices' = wgDevices /\ mem'.wgKey = mem.wgKey /\ mem'.wgId = mem.wgId
  BY DEF QuietStep
<1>2. wgDevices' = wgDevices
  BY <1>0, <1>1 DEF Does, Left, Entered, Copied, Asked, Registered, KeyStored, LicenseSet
<1>3. ASSUME NEW g \in GroupSet, Copied(c, g) PROVE mem'.wgKey = mem.wgKey /\ mem'.wgId = mem.wgId
  <2>1. "wgKey" \in GroupSet /\ "wgId" \in GroupSet /\ g # "wgKey" /\ g # "wgId"
    BY <1>1, <1>3 DEF GroupSet
  <2> QED
    BY <1>3, <2>1 DEF Copied
<1> QED
  BY <1>0, <1>2, <1>3, OnlyCopiesTouchMem

LEMMA StillFine ==
    ASSUME IInv, TypeInv', Effect, Observe, Fine'
    PROVE  Fine /\ WgOK /\ \A c \in Callers : Does(c) => FineStep(c)
<1>1. Fine /\ Good /\ Good'
  <2>1. overlaps \subseteq overlaps'
    BY MeetingsKept
  <2> QED
    BY <2>1, FailureStays DEF Fine, Good
<1>2. WgOK /\ IdentityOK
  BY <1>1 DEF IInv, WgFits, IdentityFits
<1>3. ASSUME NEW c \in Callers, Does(c) PROVE GoodStep(c)
  BY <1>1, <1>2, <1>3, DevicesStay DEF GoodStep, IInv
<1> QED
  BY <1>1, <1>2, <1>3 DEF FineStep

LEMMA WgFitsKept ==
    ASSUME IInv, TypeInv', Effect, Observe
    PROVE  WgFits'
<1>1. SUFFICES ASSUME Fine' PROVE WgOK'
  BY DEF WgFits
<1>2. Fine /\ WgOK /\ \A c \in Callers : Does(c) => FineStep(c)
  BY <1>1, StillFine
<1>3. ASSUME \A c \in Callers : at[c] = "idle" /\ at'[c] = "idle",
             mem' = mem \/ mem' = Blank, file' = file, wgDevices' = wgDevices
      PROVE  WgOK'
  <2>1. Durable' = Durable
    BY <1>3 DEF Durable, Readable
  <2>2. WgKnown' /\ KeyFirst'
    BY <1>2, <1>3, <2>1, BlankIsRecord DEF WgOK, WgKnown, Known, KeyFirst, Enrols
  <2>3. FileWhole'
    BY <1>2, <1>3, <2>1, BlankIsRecord DEF WgOK, FileWhole, Registering, Changes
  <2>4. \A c \in Callers : LoaderFits(c)' /\ RegistersFit(c)' /\ EnrolsFit(c)'
    BY <1>3 DEF LoaderFits, RegistersFit, EnrolsFit, Enrols
  <2> QED
    BY <2>2, <2>3, <2>4 DEF WgOK
<1>4. CASE Started
  <2>1. \A c \in Callers : at[c] = "idle" /\ at'[c] = "idle"
    BY <1>4 DEF Started, IInv, OpsFit, OpFits
  <2> QED
    BY <1>3, <1>4, <2>1 DEF Started
<1>5. CASE Ended
  <2>1. \A c \in Callers : at[c] = "idle" /\ at'[c] = "idle"
    BY <1>1, <1>5 DEF Ended, Fine
  <2> QED
    BY <1>3, <1>5, <2>1 DEF Ended
<1>6. ASSUME NEW c \in Callers, Does(c) PROVE WgOK'
  <2>1. FineStep(c)
    BY <1>2, <1>6
  <2>2. CASE QuietStep(c)
    BY <2>2, QuietKnown, QuietFile, QuietCallers DEF WgOK
  <2> QED
    BY <2>1, <2>2, QuietOrNot, CopiedHalf, AddedDevice, CreatedRecord, WrittenRecord
<1> QED
  BY <1>4, <1>5, <1>6 DEF Effect

-----------------------------------------------------------------------------
(* The invariant, and what follows from it.                                *)

LEMMA InitIInv ==
    ASSUME Init
    PROVE  IInv
<1>1. TypeInv
  <2>1. /\ at \in [Callers -> Places] /\ op \in [Callers -> AppOps \cup CliOps]
        /\ src \in [Callers -> Records] /\ todo \in [Callers -> Seq(GroupSet)]
    BY BlankIsRecord, RangesOfGroups DEF Init, Places, AppOps
  <2>2. \A c \in Callers : Len(todo[c]) <= 5
    BY RangesOfGroups DEF Init
  <2>3. devices \in Seq(Devices) /\ Len(devices) <= MaxDevices
    BY EmptySeq, ConfigStoreAssumption DEF Init
  <2>4. wgDevices \in 0 .. MaxDevices /\ keys \in 0 .. MaxDevices /\ calls \in 0 .. MaxCalls
    BY ConfigStoreAssumption DEF Init
  <2>5. file \in Records /\ mem \in Records /\ program \in {"none", "app", "cli"} /\ failed \in BOOLEAN
    BY BlankIsRecord DEF Init
  <2> QED
    BY <2>1, <2>2, <2>3, <2>4, <2>5 DEF TypeInv
<1>2. \A c \in Callers : at[c] = "idle" /\ todo[c] = <<>>
  BY DEF Init
<1>3. TodoFits /\ OpsFit /\ IdsAreReal
  BY <1>2 DEF Init, TodoFits, TodoFit, OpsFit, OpFits, IdsAreReal, IdFits, Readable, Carried, Stages
<1>4. HistoryFits /\ MeetingsSeen /\ AloneFits /\ WriterFindsBlank
  BY <1>2 DEF Init, HistoryFits, MeetingsSeen, Meet, Changing, AloneFits, WriterFindsBlank
<1>5. WgKept
  BY <1>2 DEF WgKept, Carried
<1>6. IdentityFits
  BY <1>2 DEF Init, IdentityFits, IdentityOK, SourcesWork, CopiesFit, SameIdentity, FileAgrees, FileWorks,
       RegisterAlone, AppHasFile, NewDevice, Stages, Carried, Changes, Readable
<1>7. OrderFits
  BY <1>2, RangesOfGroups DEF OrderFits, WgIdLast
<1>8. WgFits
  <2>1. Durable = {}
    BY <1>2 DEF Init, Durable, Readable
  <2>2. mem = Blank
    BY DEF Init
  <2> QED
    BY <1>2, <2>1, <2>2, BlankIsRecord DEF WgFits, WgOK, WgKnown, Known, KeyFirst, FileWhole, LoaderFits,
         RegistersFit, EnrolsFit, Enrols
<1> QED
  BY <1>1, <1>3, <1>4, <1>5, <1>6, <1>7, <1>8 DEF IInv

\* Every part of the invariant survives every step.
LEMMA StepIInv ==
    ASSUME IInv, [Next]_vars
    PROVE  IInv'
<1>1. CASE Next
  <2>1. Effect /\ TypeInv' /\ Observe
    BY <1>1, StepEffect DEF Next, IInv
  <2>2. HistoryFits'
    <3>1. overlaps' \subseteq {"register", "wg", "save"}
      BY <2>1 DEF Observe, IInv, HistoryFits
    <3>2. alone' \subseteq Callers
      BY <2>1 DEF Observe
    <3> QED
      BY <3>1, <3>2 DEF HistoryFits
  <2>3. TodoFits' /\ OpsFit' /\ IdsAreReal'
    BY <2>1, TodoKept, OpsKept, IdsKept DEF IInv
  <2>4. MeetingsSeen' /\ AloneFits' /\ WriterFindsBlank'
    BY <2>1, MeetingsKept, AloneKept, WritersKept DEF IInv
  <2>5. WgKept'
    BY <2>1, WgKeptKept DEF IInv
  <2>6. IdentityFits'
    BY <2>1, IdentityKept
  <2>7. OrderFits' /\ WgFits'
    BY <2>1, OrderKept, WgFitsKept DEF IInv
  <2> QED
    BY <2>1, <2>2, <2>3, <2>4, <2>5, <2>6, <2>7 DEF IInv
<1>2. CASE UNCHANGED vars
  <2>1. UNCHANGED <<file, mem, program, at, op, src, todo, devices, wgDevices, keys, calls, overlaps, alone, failed>>
    BY <1>2 DEF vars, local, server
  <2>2. TypeInv' /\ HistoryFits'
    BY <2>1 DEF IInv, TypeInv, HistoryFits
  <2>3. TodoFits' /\ OpsFit' /\ IdsAreReal'
    BY <2>1 DEF IInv, TodoFits, TodoFit, OpsFit, OpFits, IdsAreReal, IdFits, Readable, Carried, Real, Pending
  <2>4. MeetingsSeen' /\ AloneFits' /\ WriterFindsBlank'
    BY <2>1 DEF IInv, MeetingsSeen, Meet, Changing, AloneFits, AloneFit, WriterFindsBlank, Readable, Carried, Pending
  <2>5. WgKept'
    BY <2>1 DEF IInv, WgKept, Durable, Readable, Carried, Pending
  <2>6. IdentityFits'
    BY <2>1 DEF IInv, IdentityFits, IdentityOK, SourcesWork, CopiesFit, SameIdentity, FileAgrees, FileWorks,
         RegisterAlone, AppHasFile, NewDevice, Carried, Pending, Changes, Readable, Works, Real, Good, Durable
  <2>7. OrderFits'
    BY <2>1 DEF IInv, OrderFits
  <2>8. WgFits'
    BY <2>1 DEF IInv, WgFits, Fine, WgOK, WgKnown, Known, KeyFirst, FileWhole, LoaderFits, RegistersFit,
         EnrolsFit, Enrols, Registering, Changes, Durable, Readable, Carried, Pending
  <2> QED
    BY <2>2, <2>3, <2>4, <2>5, <2>6, <2>7, <2>8 DEF IInv
<1> QED
  BY <1>1, <1>2

\* The parts of the invariant hold in every state, whatever overlaps or fails.
THEOREM Invariant == Spec => []IInv
<1>1. Init => IInv
  BY InitIInv
<1>2. IInv /\ [Next]_vars => IInv'
  BY StepIInv
<1> QED
  BY <1>1, <1>2, PTL DEF Spec

\* Every variable keeps its type.
THEOREM TypeCorrect == Spec => []TypeOK
<1>1. IInv => TypeOK
  <2>1. SUFFICES ASSUME IInv PROVE TypeOK
    OBVIOUS
  <2>2. ASSUME NEW c \in Callers PROVE Range(todo[c]) \subseteq Range(Groups) /\ Len(todo[c]) <= Len(Groups)
    <3>1. todo[c] \in Seq(GroupSet) /\ Len(todo[c]) <= 5
      BY <2>1 DEF IInv, TypeInv
    <3>2. Range(todo[c]) \subseteq GroupSet
      <4>1. DOMAIN todo[c] = 1 .. Len(todo[c]) /\ \A i \in 1 .. Len(todo[c]) : todo[c][i] \in GroupSet
        BY <3>1, ElementOfSeq, LenProperties
      <4> QED
        BY <4>1 DEF Range
    <3> QED
      BY <3>1, <3>2, RangesOfGroups
  <2> QED
    BY <2>1, <2>2 DEF IInv, TypeInv, HistoryFits, TypeOK, Places, Devices, Licenses
<1> QED
  BY <1>1, Invariant, PTL

\* The key in the file is the one the server has enrolled for the device in
\* the file, for any number of overlapping calls (Register, LoadConfig and the
\* saves of usque_android.go, enroll.go).
THEOREM IdentityWorks == Spec => []StoredIdentityWorks
<1>1. IInv => StoredIdentityWorks
  BY DEF IInv, IdentityFits, IdentityOK, FileWorks, Good, Works, Real, StoredIdentityWorks
<1> QED
  BY <1>1, Invariant, PTL

\* A change of the license that met no other call is in the file when it
\* reports success (UpdateLicense, RemoveLicense).
THEOREM LicenseIsStored == Spec => LicenseSuccessIsStored
<1>1. ASSUME IInv, [Next]_vars, NEW c \in alone,
             op[c] \in LicenseOps, at[c] = "write", at'[c] = "idle", Readable'
      PROVE  file'.license = devices[file'.id].license
  <2>1. c \in Callers /\ ~Readable /\ devices[src[c].id].license = src[c].license
        /\ \A d \in Callers \ {c} : at[d] = "idle"
    BY <1>1 DEF IInv, HistoryFits, AloneFits, AloneFit
  <2>2. file' # file
    BY <1>1, <2>1 DEF Readable
  <2>3. Next
    BY <1>1, <2>2 DEF vars
  <2>4. Effect
    BY <1>1, <2>3, StepEffect DEF Next, IInv
  <2>5. PICK d \in Callers : Does(d)
    BY <2>2, <2>4 DEF Effect, Started, Ended
  <2>6. Written(d)
    BY <1>1, <2>2, <2>5, OnlySavesTouchFile DEF Created, Readable
  <2>7. d = c
    BY <2>1, <2>6 DEF Written
  <2> QED
    BY <2>1, <2>6, <2>7 DEF Written
<1>2. IInv /\ [Next]_vars =>
        [\A c \in alone : (op[c] \in LicenseOps /\ at[c] = "write" /\ at'[c] = "idle" /\ Readable')
            => file'.license = devices[file'.id].license]_vars
  BY <1>1
<1> QED
  BY <1>2, Invariant, PTL DEF Spec, LicenseSuccessIsStored

\* No save loses the WireGuard device that another call has stored
\* (RegisterWg, SaveConfig).
THEOREM WgDeviceIsKept == Spec => StoredWgIsKept
<1>1. ASSUME IInv, [Next]_vars, Readable, file.wgKey # 0, overlaps' \cap {"register", "save"} = {},
             \A c \in Callers : at'[c] = "write" => op[c] \notin {"Register", "register", "enroll"},
             NEW r \in Durable'
      PROVE  r.wgKey # 0
  <2>1. CASE UNCHANGED vars
    <3>1. UNCHANGED <<file, at, src, overlaps>>
      BY <2>1 DEF vars, local
    <3>2. \A c \in Callers : at[c] # "write"
      BY <1>1, <3>1 DEF IInv, WriterFindsBlank
    <3>3. r = file
      BY <1>1, <3>1, <3>2 DEF Durable, Readable
    <3> QED
      BY <1>1, <3>3
  <2>2. CASE Next
    <3>1. Effect /\ overlaps \subseteq overlaps'
      BY <1>1, <2>2, StepEffect, MeetingsKept DEF Next, IInv
    <3>2. \A c \in Callers : at[c] # "write"
      BY <1>1, <3>1 DEF IInv, WriterFindsBlank
    <3>3. CASE r \in Durable
      BY <1>1, <3>2, <3>3 DEF Durable
    <3>4. ASSUME NEW c \in Callers, Created(c), r = mem PROVE mem.wgKey # 0
      <4>1. at'[c] = "write" /\ at[c] = "assign" /\ todo[c] = <<>>
        BY <3>4 DEF Created, Moves
      <4>2. op[c] \in Savers
        BY <1>1, <4>1 DEF IInv, OpsFit, OpFits, Enrolling
      <4>3. Carried(c, "wgKey")
        BY <4>1, RangesOfGroups DEF Carried, Pending
      <4>4. overlaps \cap {"register", "save"} = {} /\ file \in Durable
        BY <1>1, <3>1 DEF Durable
      <4> QED
        BY <1>1, <4>2, <4>3, <4>4 DEF IInv, WgKept
    <3> QED
      BY <3>1, <3>3, <3>4, DurableComesFrom
  <2> QED
    BY <1>1, <2>1, <2>2
<1>2. IInv /\ [Next]_vars =>
        [(/\ Readable /\ file.wgKey # 0 /\ overlaps' \cap {"register", "save"} = {}
          /\ \A c \in Callers : at'[c] = "write" => op[c] \notin {"Register", "register", "enroll"})
            => \A r \in Durable' : r.wgKey # 0]_vars
  BY <1>1
<1> QED
  BY <1>2, Invariant, PTL DEF Spec, StoredWgIsKept

\* A WireGuard registration that reports success has its device in the file,
\* or in the save under way (RegisterWg).
THEOREM WgIsStored == Spec => WgSuccessIsStored
<1>1. ASSUME IInv, [Next]_vars, NEW c \in Callers,
             op[c] = "RegisterWg", at[c] \in {"load", "write"}, at'[c] = "idle",
             program' = program, overlaps' = {}, ~failed'
      PROVE  Durable' # {} /\ \A r \in Durable' : r.wgKey # 0 /\ r.wgKey = r.wgId
  <2>1. Next
    <3>1. at'[c] # at[c]
      BY <1>1
    <3> QED
      BY <1>1, <3>1 DEF vars, local
  <2>2. Effect /\ TypeInv' /\ Observe
    BY <1>1, <2>1, StepEffect DEF Next, IInv
  <2>3. Fine'
    BY <1>1 DEF Fine
  <2>4. PICK d \in Callers : Does(d)
    <3>1. program = "app"
      BY <1>1 DEF IInv, OpsFit, OpFits, CliOps
    <3> QED
      BY <1>1, <2>2, <3>1 DEF Effect, Started, Ended
  <2>5. d = c /\ FineStep(c)
    <3>1. d = c
      BY <1>1, <2>4, OthersStay
    <3> QED
      BY <1>1, <2>2, <2>3, <2>4, <3>1, StillFine
  <2>6. CASE at[c] = "load"
    <3>1. Left(c)
      BY <1>1, <2>4, <2>5, <2>6
        DEF Does, Entered, Copied, Asked, Registered, KeyStored, WgAdded, LicenseSet, Created, Written, Moves
    <3>2. mem.wgKey # 0 /\ file' = file
      BY <1>1, <2>6, <3>1 DEF Left
    <3>3. \A e \in Callers : ~Registering(e)
      <4>1. ASSUME NEW e \in Callers, Registering(e) PROVE FALSE
        <5>1. e = c
          BY <1>1, <2>5, <2>6, <4>1, OneRegisters
        <5> QED
          BY <2>6, <4>1, <5>1 DEF Registering, Changes
      <4> QED
        BY <4>1
    <3>4. \A r \in Durable : r.wgKey = r.wgId /\ r.wgKey # 0
      BY <2>5, <3>2, <3>3 DEF FineStep, WgOK, FileWhole
    <3>5. Durable' = Durable
      <4>1. \A e \in Callers : (at'[e] = "write") = (at[e] = "write")
        BY <1>1, <2>4, <2>5, <2>6, OthersStay
      <4>2. \A e \in Callers : at[e] = "write" => src'[e] = src[e]
        BY <1>1, <2>4, <2>5, <2>6, OthersStay
      <4> QED
        BY <3>2, <4>1, <4>2 DEF Durable, Readable
    <3>6. Durable # {}
      BY <1>1, <2>5, <2>6, WorkersHaveFile DEF AppOps
    <3> QED
      BY <3>4, <3>5, <3>6
  <2>7. CASE at[c] = "write"
    <3>1. Written(c)
      BY <1>1, <2>4, <2>5, <2>7
        DEF Does, Left, Entered, Copied, Asked, Registered, KeyStored, WgAdded, LicenseSet, Created, Moves
    <3>2. src[c].wgKey = wgDevices /\ src[c].wgId = wgDevices /\ wgDevices # 0
      BY <1>1, <2>5, <2>7 DEF FineStep, WgOK, RegistersFit
    <3>3. file' = src[c] /\ Readable'
      BY <3>1, <3>2, BlankIsRecord DEF Written, Readable
    <3>4. \A r \in Durable' : r = src[c]
      <4>1. src[c] \in Durable /\ ~Created(c)
        BY <2>7 DEF Durable, Created
      <4> QED
        BY <2>5, <4>1, DurableStays, OneDurable
    <3> QED
      BY <3>2, <3>3, <3>4 DEF Durable
  <2> QED
    BY <1>1, <2>6, <2>7
<1>2. IInv /\ [Next]_vars =>
        [\A c \in Callers :
            (/\ op[c] = "RegisterWg" /\ at[c] \in {"load", "write"} /\ at'[c] = "idle"
             /\ program' = program /\ overlaps' = {} /\ ~failed')
            => Durable' # {} /\ \A r \in Durable' : r.wgKey # 0 /\ r.wgKey = r.wgId]_vars
  BY <1>1
<1> QED
  BY <1>2, Invariant, PTL DEF Spec, WgSuccessIsStored
================================================================================
