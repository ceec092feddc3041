------------------------------ MODULE Loading ------------------------------
(***************************************************************************)
(* A user on an operating system: writes a configuration file, loads it    *)
(* with hzl_ServerNew or hzl_ClientNew, and releases what it was handed,   *)
(* if anything. Memory may be scarce at any allocation, the file may end   *)
(* anywhere, the clock and the random generator may fail.                  *)
(*                                                                         *)
(* The heap is the set of the allocated structures, named after the fields *)
(* that point to them; a file is its magic number and the context that its *)
(* bytes describe, as in ServerChecks and ClientChecks.                    *)
(***************************************************************************)
EXTENDS ServerChecks, ClientChecks, FiniteSets

CONSTANTS
    Roles,   \* the sides that load contexts, of {"server", "client"}
    MaxEdits \* bound: how many edits make a file

ASSUME RolesAssumption == Roles \subseteq {"server", "client"}
ASSUME MaxEditsAssumption == MaxEdits \in Nat

VARIABLES
    role,  \* which side this is
    file,  \* the file's magic number and its configuration
    edits, \* how often the user changed the file
    heap,  \* the structures allocated
    held,  \* whether the user has a context, in *pCtx
    err,   \* what the last load said, or "NONE"
    stale  \* the structures freed with their content

vars == <<role, file, edits, heap, held, err, stale>>

----------------------------------------------------------------------------
(* The steps of a load *)

Alloc(what) == [alloc |-> TRUE, what |-> what]
Read(what)  == [alloc |-> FALSE, what |-> what]
Reads(n, what) == [i \in 1 .. n |-> Read(what)]

\* hzl_ServerNew after it opened the file
ServerNewSteps(c) ==
    <<Read("magic"), Alloc("ctx"), Alloc("serverConfig"), Read("serverConfig")>>
    \o <<Alloc("clientConfigs")>> \o Reads(c.amountOfClients, "client")
    \o <<Alloc("groupConfigs")>> \o Reads(c.amountOfGroups, "group")
    \o <<Alloc("groupStates")>>

ClientNewSteps(c) ==
    <<Read("magic"), Alloc("ctx"), Alloc("clientConfig"), Read("clientConfig")>>
    \o <<Alloc("groupConfigs")>> \o Reads(c.amountOfGroups, "group")
    \o <<Alloc("groupStates")>>

NewSteps ==
    IF role = "server" THEN ServerNewSteps(file.config) ELSE ClientNewSteps(file.config)

\* hzl_CheckMagicNumber
ExpectedMagic == IF role = "server" THEN "HZLs" ELSE "HZLc"

\* The first step that fails, if any: the file has another magic number, or
\* there is no memory or no more of the file at some step (0 stands for none).
FailedStep(short) ==
    IF file.magic # ExpectedMagic /\ short # 1 THEN {1} ELSE {short} \ {0}

\* Its error.
StepError(n, short) ==
    IF NewSteps[n].alloc THEN "MALLOC_FAILED"
    ELSE IF n = short THEN "UNEXPECTED_EOF"
    ELSE "INVALID_FILE_MAGIC_NUMBER"

AllocatedBefore(n) == {NewSteps[i].what : i \in {i \in 1 .. n - 1 : NewSteps[i].alloc}}

\* hzl_ServerInit or hzl_ClientCheckCtx; only the former needs the clock and
\* the random generator.
InitError(works) ==
    IF role = "client" THEN ClientCheckCtx(file.config)
    ELSE IF ServerCheckCtx(file.config) # "OK" THEN ServerCheckCtx(file.config)
    ELSE Check(~works, "FAILED")

----------------------------------------------------------------------------
(* The release of a context *)

Config == IF role = "server" THEN "serverConfig" ELSE "clientConfig"

Arrays == {"groupStates", "clientConfigs", "groupConfigs"}

\* Mutant: the configuration goes before the arrays whose length it holds.
Mutant_FreeOrder ==
    <<Config, "groupStates", "clientConfigs", "groupConfigs", "ctx">>

\* The order of hzl_ServerFree; hzl_ClientFree has no clientConfigs.
FreeOrder == <<"groupStates", "clientConfigs", "groupConfigs", Config, "ctx">>

\* Nothing is known of the arrays without a configuration.
Freed(blocks) ==
    IF "ctx" \notin blocks THEN {}
    ELSE IF Config \notin blocks THEN blocks \ Arrays
    ELSE blocks

\* HZL_SECURE_FREE clears as many elements as the configuration says, which is
\* read from freed memory when the configuration went first.
FreedUnwiped(blocks) ==
    {FreeOrder[i] : i \in {i \in 1 .. Len(FreeOrder) :
        /\ FreeOrder[i] \in Freed(blocks) \cap Arrays
        /\ \E j \in 1 .. i - 1 : FreeOrder[j] = Config}}

----------------------------------------------------------------------------
(* The file *)

Client(sid, ltk) == [sid |-> sid, ltk |-> ltk]

ServerGroup(gid, sids) ==
    [gid |-> gid, sids |-> sids,
     maxCtrnonceDelayMsgs |-> 4, ctrNonceUpperLimit |-> 1000,
     sessionDurationMillis |-> 600, delayBetweenRenNotificationsMillis |-> 99]

ClientGroup(gid) == [gid |-> gid, maxCtrnonceDelayMsgs |-> 4]

ServerFile ==
    [magic |-> "HZLs",
     config |->
       [null |-> {}, headerType |-> 3, amountOfGroups |-> 3, amountOfClients |-> 3,
        clients |-> <<Client(1, 1), Client(2, 2), Client(3, 3)>>,
        groups |-> <<ServerGroup(0, 1 .. 32), ServerGroup(1, {1}), ServerGroup(2, {2, 3})>>]]

ClientFile ==
    [magic |-> "HZLc",
     config |-> [null |-> {}, headerType |-> 3, amountOfGroups |-> 3, sid |-> 1, ltk |-> 1,
                 groups |-> <<ClientGroup(0), ClientGroup(1), ClientGroup(7)>>]]

\* Without a gap, but not from 1.
LaterClients == <<Client(2, 2), Client(3, 3), Client(4, 4)>>

Init ==
    /\ role \in Roles
    /\ file = IF role = "server" THEN ServerFile ELSE ClientFile
    /\ edits = 0
    /\ heap = {}
    /\ held = FALSE
    /\ err = "NONE"
    /\ stale = {}

Edited(config) ==
    /\ edits < MaxEdits
    /\ ~held
    /\ edits' = edits + 1
    /\ file' = [file EXCEPT !.config = config]
    /\ err' = "NONE"
    /\ UNCHANGED <<role, heap, held, stale>>

EditEither ==
    \/ \E type \in {3, 4, 6, 7} : Edited([file.config EXCEPT !.headerType = type])
    \/ \E n \in 0 .. 3 : Edited([file.config EXCEPT !.amountOfGroups = n])
    \/ \E i \in 1 .. 3 :
        \/ \E gid \in {0, 1, 2, 4, 7, 8} : Edited([file.config EXCEPT !.groups[i].gid = gid])
        \/ Edited([file.config EXCEPT
                !.groups[i].maxCtrnonceDelayMsgs = LargestMaxCounterNonceDelay + 1])

EditServer ==
    /\ role = "server"
    /\ \/ \E n \in 0 .. 3 : Edited([file.config EXCEPT !.amountOfClients = n])
       \/ Edited([file.config EXCEPT !.clients = LaterClients])
       \/ \E i \in 1 .. 3 :
            \/ \E sid \in 0 .. 4 : Edited([file.config EXCEPT !.clients[i].sid = sid])
            \/ Edited([file.config EXCEPT !.clients[i].ltk = 0])
            \/ \E sids \in {{}, {1}, {2, 3}, {4}, 1 .. 3} :
                Edited([file.config EXCEPT !.groups[i].sids = sids])
            \/ \E d \in {0, 1, 100} :
                Edited([file.config EXCEPT !.groups[i].delayBetweenRenNotificationsMillis = d])
            \/ Edited([file.config EXCEPT
                    !.groups[i].ctrNonceUpperLimit = ServerMaxCounterNonceUpperLimit + 1])

EditClient ==
    /\ role = "client"
    /\ \/ \E sid \in {0, 1, 4, 8} : Edited([file.config EXCEPT !.sid = sid])
       \/ Edited([file.config EXCEPT !.ltk = 0])

\* A file for the other side, or of the documented format (hzl_ServerOs.h:70).
EditMagic ==
    /\ edits < MaxEdits
    /\ ~held
    /\ edits' = edits + 1
    /\ \E magic \in {"HZLs", "HZLc", "HZL"} : file' = [file EXCEPT !.magic = magic]
    /\ err' = "NONE"
    /\ UNCHANGED <<role, heap, held, stale>>

----------------------------------------------------------------------------
(* The user *)

\* Refused before anything is read: *pCtx, if there is one, is set to NULL.
NewRefused ==
    /\ ~held
    /\ err' \in {"NULL_CTX", "NULL_FILENAME", "CANNOT_OPEN_CONFIG_FILE"}
    /\ UNCHANGED <<role, file, edits, heap, held, stale>>

\* Mutant: what was allocated stays when the load fails.
Mutant_NewFails(short) ==
    \E n \in FailedStep(short) :
        /\ err' = StepError(n, short)
        /\ heap' = heap \cup AllocatedBefore(n)
        /\ UNCHANGED <<held, stale>>

\* The load stops, and releases its own context.
NewFails(short) ==
    \E n \in FailedStep(short) :
        /\ err' = StepError(n, short)
        /\ heap' = heap \cup (AllocatedBefore(n) \ Freed(AllocatedBefore(n)))
        /\ stale' = stale \cup FreedUnwiped(AllocatedBefore(n))
        /\ UNCHANGED held

\* The context is handed out, whatever its initialisation says.
NewReturns(short) ==
    /\ FailedStep(short) = {}
    /\ \E works \in BOOLEAN : err' = InitError(works)
    /\ heap' = heap \cup AllocatedBefore(Len(NewSteps) + 1)
    /\ held' = TRUE
    /\ UNCHANGED stale

New ==
    /\ ~held
    /\ \E short \in 0 .. Len(NewSteps) : NewFails(short) \/ NewReturns(short)
    /\ UNCHANGED <<role, file, edits>>

\* hzl_ServerFree or hzl_ClientFree, of anything but NULL; a message is not
\* part of a context
Free ==
    /\ held
    /\ heap' = heap \ Freed(heap \ {"msg"})
    /\ stale' = stale \cup FreedUnwiped(heap \ {"msg"})
    /\ held' = FALSE
    /\ UNCHANGED <<role, file, edits, err>>

\* hzl_ServerNewMsg or hzl_ClientNewMsg, hzl_ServerFreeMsg or hzl_ClientFreeMsg
NewMsg ==
    /\ "msg" \notin heap
    /\ heap' \in {heap, heap \cup {"msg"}}
    /\ UNCHANGED <<role, file, edits, held, err, stale>>

FreeMsg ==
    /\ heap' = heap \ {"msg"}
    /\ UNCHANGED <<role, file, edits, held, err, stale>>

Next ==
    \/ EditEither
    \/ EditServer
    \/ EditClient
    \/ EditMagic
    \/ NewRefused
    \/ New
    \/ Free
    \/ NewMsg
    \/ FreeMsg

Spec == Init /\ [][Next]_vars
----------------------------------------------------------------------------
(* Properties *)

IsDocumented ==
    IF role = "server" THEN IsDocumentedServer(file.config) ELSE IsDocumentedClient(file.config)

\* Not about the file's content.
OutsideErrors ==
    {"NONE", "NULL_CTX", "NULL_FILENAME", "CANNOT_OPEN_CONFIG_FILE", "UNEXPECTED_EOF",
     "INVALID_FILE_MAGIC_NUMBER", "MALLOC_FAILED", "FAILED"}

\* Both sides accept exactly the configurations the documentation allows (but
\* for the Server's first SID): neighbour by neighbour, in the middle of the
\* loops of hzl_ServerInit and hzl_ClientCheckCtx, whole arrays are checked.
AcceptsTheDocumented == err \notin OutsideErrors => (err = "OK" <=> IsDocumented)

\* With an accepted configuration, no message makes the Server read beyond its
\* arrays. A Group that passes for known is the one of that GID. The Clients
\* are searched by position too (hzl_ServerProcessReceivedRequest.c:101,172):
\* the entry read is as far from the first one as the SID is from 1, so that it
\* is that Client's where the SIDs start from 1, as hzl_Server.h:133-138 has
\* them. hzl_ServerInit does not check that they do: where they start later,
\* the entry, and its key, is of a Client as many SIDs later.
KnownIsConfigured ==
    role = "server" /\ err = "OK" =>
        \A gid \in 0 .. 4, sid \in 1 .. 4 :
            ServerValidateSidAndGid(file.config, gid, sid) = "OK" =>
                /\ gid + 1 \in 1 .. file.config.amountOfGroups
                /\ file.config.groups[gid + 1].gid = gid
                /\ sid \in 1 .. file.config.amountOfClients
                /\ file.config.clients[sid].sid - sid = file.config.clients[1].sid - 1

\* With an accepted configuration a Client finds every configured Group at its
\* own position and no other GID anywhere: no state is out of reach.
EveryGroupIsFound ==
    role = "client" /\ err = "OK" =>
        \A gid \in 0 .. HeaderTypeMaxGid(file.config.headerType) :
            ClientFindGroup(file.config, gid)
                = {i \in 1 .. file.config.amountOfGroups : file.config.groups[i].gid = gid}

\* Wherever a load fails, a context is either whole and in the user's hands, so
\* that every call and the release find all of it, or nothing of it remains:
\* hzl_ServerNew and hzl_ClientNew give up on a context in the middle of its
\* allocations, but hand it out when its initialisation fails. No key stays in
\* freed memory: every array is cleared while its length is still known.
WholeOrGone ==
    /\ heap \ {"msg"} = IF held THEN AllocatedBefore(Len(NewSteps) + 1) ELSE {}
    /\ stale = {}

=============================================================================
