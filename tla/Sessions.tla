------------------------------ MODULE Sessions ------------------------------
(***************************************************************************)
(* Several clients at one master: the table of ports (try_assign_port in   *)
(* dfs-master.c, the same in dfs-chunkserver.c), cd and ls, whose listing  *)
(* is sent in pieces of 27 bytes (dfs-master.c, dfs-client.c).  There is   *)
(* one mirror, so all clients share one current directory; connecting      *)
(* moves it to the home directory.  The tree is root / home / sub.         *)
(***************************************************************************)
EXTENDS Integers, Sequences, FiniteSets

CONSTANTS
    Client,        \* addresses of clients, none of which is 0
    DFS_MAX_CONN,  \* ports
    SesCap,        \* packets a receive queue holds
    SesLosses,     \* bound: packets lost on the air
    Commands,      \* commands typed: cd or ls, and its argument
    SesCmds,       \* bound on the commands of all clients
    SesRetries     \* bound on the requests for a connection that are repeated

ASSUME SessionsAssumption ==
    /\ 0 \notin Client /\ DFS_MAX_CONN \in Nat \ {0} /\ SesCap \in Nat \ {0}
    /\ {SesLosses, SesCmds, SesRetries} \subseteq Nat
    /\ Commands \subseteq [op : {"CD", "LS"}, arg : {".", "..", "home", "sub"}]

VARIABLES
    client_addrs, n_conns,  \* the table of ports
    path,       \* the chain of directories of the mirror; its last is the current one
    listing,    \* the listing that is being sent
    mq, cq,     \* receive queues
    cl,         \* the clients
    up,         \* the master runs
    ncmds,      \* commands typed
    retries,    \* requests for a connection repeated
    losses,     \* packets lost
    refused     \* history: clients that were refused

ses_vars == <<client_addrs, n_conns, path, listing, mq, cq, cl, up, ncmds, retries, losses, refused>>

Port == 0 .. DFS_MAX_CONN - 1
Nobody == [to |-> 0, n |-> 0, idx |-> 0, res |-> FALSE, asker |-> 0, dir |-> ""]

\* Bytes of the listing of a directory: of one piece, exactly two, and none.
ListLen(d) == CASE d = "root" -> 9 [] d = "home" -> 54 [] d = "sub" -> 0

SesInit ==
    /\ client_addrs = [p \in Port |-> 0] /\ n_conns = 0
    /\ path = <<"root">> /\ listing = Nobody
    /\ mq = <<>> /\ cq = [c \in Client |-> <<>>]
    /\ cl = [c \in Client |-> [pc |-> "off", port |-> 0, arg |-> "", n |-> 0, out |-> <<>>, res |-> 1, dir |-> ""]]
    /\ up = TRUE /\ ncmds = 0 /\ retries = 0 /\ losses = 0 /\ refused = {}

-----------------------------------------------------------------------------
(* The network. *)

\* A packet for the master, a packet for a client (address 0 is nobody's).
SendToMaster(m) ==
    \/ Len(mq) < SesCap /\ mq' = Append(mq, m) /\ UNCHANGED losses
    \/ (losses < SesLosses \/ Len(mq) = SesCap) /\ mq' = mq /\ losses' = losses + 1

SesReply(c, m) ==
    \/ c \in Client /\ Len(cq[c]) < SesCap /\ cq' = [cq EXCEPT ![c] = Append(@, m)] /\ UNCHANGED losses
    \/ (losses < SesLosses \/ c \notin Client \/ Len(cq[c]) = SesCap) /\ cq' = cq /\ losses' = losses + 1

\* The master has nothing of client c left to answer.
Answered(c) == ~up \/ (listing.asker # c /\ \A i \in 1 .. Len(mq) : mq[i].from # c)

-----------------------------------------------------------------------------
(* The master. *)

Assigned(addr) == {p \in Port : client_addrs[p] = addr}
Least(S) == CHOOSE p \in S : \A q \in S : p <= q

\* Mutant: a client that is known is counted again.
CountsAgain(addr) ==
    /\ n_conns' = IF Assigned(addr) \cup Assigned(0) # {} THEN n_conns + 1 ELSE n_conns
    /\ client_addrs' = IF Assigned(addr) = {} /\ Assigned(0) # {}
                       THEN [client_addrs EXCEPT ![Least(Assigned(0))] = addr] ELSE client_addrs
    /\ up' = (Assigned(addr) \cup Assigned(0) # {} \/ n_conns = DFS_MAX_CONN)

\* The table after a request for a port; the assertion may stop the master.
try_assign_port(addr) ==
    IF Assigned(addr) # {} THEN UNCHANGED <<client_addrs, n_conns, up>>
    ELSE IF Assigned(0) = {} THEN up' = (n_conns = DFS_MAX_CONN) /\ UNCHANGED <<client_addrs, n_conns>>
    ELSE /\ client_addrs' = [client_addrs EXCEPT ![Least(Assigned(0))] = addr]
         /\ n_conns' = n_conns + 1 /\ UNCHANGED up

\* Mutant: the port that is sent is that of the last client.
PortOfLast(addr) == n_conns' - 1

\* The port found, of those the table holds afterwards.
PortFor(addr) == Least({p \in Port : client_addrs'[p] = addr})

\* DFS_CNCT: the client's directory is created, or found, and entered.
MasterConnects(m) ==
    /\ m.op = "CNCT" /\ try_assign_port(m.from)
    /\ IF ~up' THEN UNCHANGED <<cq, path, losses, refused>>
       ELSE IF Assigned(m.from) \cup Assigned(0) = {}
       THEN /\ SesReply(m.from, [op |-> "REJ", asker |-> m.from]) /\ refused' = refused \cup {m.from}
            /\ UNCHANGED path
       ELSE /\ SesReply(m.from, [op |-> "ACP", asker |-> m.from, port |-> PortFor(m.from)])
            /\ path' = Append(path, "home") /\ UNCHANGED refused
    /\ UNCHANGED listing

Current == path[Len(path)]

\* The chain after cd to d, which is there.
changedir(d) ==
    CASE d = "." -> path
      [] d = ".." -> IF Len(path) > 1 THEN SubSeq(path, 1, Len(path) - 1) ELSE path
      [] OTHER -> Append(path, d)

Exists(d) ==
    CASE d = "." -> TRUE
      [] d = ".." -> Len(path) > 1
      [] d = "home" -> Current = "root"
      [] d = "sub" -> Current = "home"

\* DFS_CD: the reply goes to whoever has the port.
MasterCd(m) ==
    /\ m.op = "CD"
    /\ path' = IF Exists(m.arg) THEN changedir(m.arg) ELSE path
    /\ SesReply(client_addrs[m.port], [op |-> "CD", asker |-> m.from, n |-> m.n, ok |-> Exists(m.arg)])
    /\ UNCHANGED <<client_addrs, n_conns, listing, up, refused>>

\* DFS_LS: a directory that is not there is answered with the failure alone.
MasterLs(m) ==
    /\ m.op = "LS"
    /\ listing' = [to |-> client_addrs[m.port], n |-> m.n, idx |-> 0, res |-> Exists(m.arg),
                   asker |-> m.from, dir |-> IF Exists(m.arg) THEN changedir(m.arg)[Len(changedir(m.arg))] ELSE Current]
    /\ UNCHANGED <<client_addrs, n_conns, path, cq, up, losses, refused>>

MasterHandles ==
    /\ up /\ mq # <<>> /\ listing = Nobody /\ mq' = Tail(mq)
    /\ MasterConnects(Head(mq)) \/ MasterCd(Head(mq)) \/ MasterLs(Head(mq))
    /\ UNCHANGED <<cl, ncmds, retries>>

IsEnd(idx, len) == idx + 27 >= len

\* One turn of the loop that sends the listing.  The piece overlays the status,
\* which is its fifth byte: it says success only where the piece is shorter.
SendPiece ==
    LET len == ListLen(listing.dir)
        none == len = 0 \/ ~listing.res
        end == none \/ IsEnd(listing.idx, len)
        nbytes == IF end THEN len - listing.idx ELSE 27
    IN  /\ up /\ listing # Nobody
        /\ SesReply(listing.to, [op |-> IF end THEN "END_LS" ELSE "LS", asker |-> listing.asker, n |-> listing.n,
                              at |-> listing.idx, ok |-> IF none THEN listing.res ELSE nbytes <= 4])
        /\ listing' = IF none \/ listing.idx + 27 >= len THEN Nobody ELSE [listing EXCEPT !.idx = @ + 27]
        /\ UNCHANGED <<client_addrs, n_conns, path, mq, cl, up, ncmds, retries, refused>>

-----------------------------------------------------------------------------
(* A client. *)

others_ses == <<client_addrs, n_conns, path, listing, up, refused>>

SesStart(c) ==
    /\ cl[c].pc = "off" /\ cl' = [cl EXCEPT ![c].pc = "cnct"]
    /\ SendToMaster([op |-> "CNCT", from |-> c])
    /\ UNCHANGED <<others_ses, cq, ncmds, retries>>

\* dfs_client_try_connect: a packet that is no accept makes it send its request
\* again and return all the same, with the port that was there, 0.
TryConnect(c) ==
    /\ cl[c].pc = "cnct" /\ cq[c] # <<>> /\ cq' = [cq EXCEPT ![c] = Tail(@)]
    /\ IF Head(cq[c]).op = "ACP"
       THEN /\ cl' = [cl EXCEPT ![c].pc = "prompt", ![c].port = Head(cq[c]).port, ![c].dir = "home"]
            /\ UNCHANGED <<mq, losses>>
       ELSE cl' = [cl EXCEPT ![c].pc = "prompt"] /\ SendToMaster([op |-> "CNCT", from |-> c])
    /\ UNCHANGED <<others_ses, ncmds, retries>>

\* 200 ms without a packet, when the master has none to answer.
TryAgain(c) ==
    /\ cl[c].pc = "cnct" /\ cq[c] = <<>> /\ Answered(c)
    /\ retries < SesRetries /\ retries' = retries + 1
    /\ SendToMaster([op |-> "CNCT", from |-> c])
    /\ UNCHANGED <<others_ses, cq, cl, ncmds>>

\* Where the client is after cd to d has succeeded, by its own account.
Gone(from, d) ==
    CASE d = "." -> from
      [] d = ".." -> IF from = "sub" THEN "home" ELSE "root"
      [] OTHER -> d

\* The commands cd and ls of client_parse.
TypeCommand(c, op, d) ==
    /\ cl[c].pc = "prompt" /\ ncmds < SesCmds /\ ncmds' = ncmds + 1
    /\ cl' = [cl EXCEPT ![c] = [cl[c] EXCEPT !.pc = op, !.arg = d, !.n = cl[c].n + 1, !.out = <<>>]]
    /\ SendToMaster([op |-> op, from |-> c, port |-> cl[c].port, arg |-> d, n |-> cl[c].n + 1])
    /\ UNCHANGED <<others_ses, cq, retries>>

\* The command returns r: 0 is a network failure, 2 no such directory.
Returns(c, r) ==
    LET dir == IF cl[c].dir # "" /\ cl[c].pc = "CD" /\ r = 1 THEN Gone(cl[c].dir, cl[c].arg) ELSE cl[c].dir
    IN  cl' = [cl EXCEPT ![c] = [cl[c] EXCEPT !.pc = "prompt", !.res = r, !.dir = dir]]

\* One packet is read; any other than the reply to a cd is a failure.
dfs_client_change_directory(c) ==
    /\ cl[c].pc = "CD" /\ cq[c] # <<>> /\ cq' = [cq EXCEPT ![c] = Tail(@)]
    /\ LET m == Head(cq[c]) IN Returns(c, IF m.op # "CD" THEN 0 ELSE IF m.ok THEN 1 ELSE 2)
    /\ UNCHANGED <<others_ses, mq, losses, ncmds, retries>>

\* A piece is printed; other packets are skipped.
dfs_client_listdir(c) ==
    LET m == Head(cq[c]) IN
    /\ cl[c].pc = "LS" /\ cq[c] # <<>> /\ cq' = [cq EXCEPT ![c] = Tail(@)]
    /\ LET out == Append(cl[c].out, m) IN
       CASE m.op = "LS" -> cl' = [cl EXCEPT ![c] = [cl[c] EXCEPT !.out = out]]
         [] m.op = "END_LS" -> cl' = [cl EXCEPT ![c] = [cl[c] EXCEPT !.pc = "prompt", !.out = out,
                                                                     !.res = IF m.ok THEN 1 ELSE 2]]
         [] OTHER -> UNCHANGED cl
    /\ UNCHANGED <<others_ses, mq, losses, ncmds, retries>>


\* Twenty seconds without a packet.
ClientTimeout(c) ==
    /\ cl[c].pc \in {"CD", "LS"} /\ cq[c] = <<>> /\ Answered(c)
    /\ Returns(c, 0) /\ UNCHANGED <<others_ses, mq, cq, losses, ncmds, retries>>

ClientStep(c) ==
    TryConnect(c) \/ TryAgain(c) \/ dfs_client_change_directory(c) \/ dfs_client_listdir(c) \/ ClientTimeout(c)

SesNext ==
    \/ MasterHandles \/ SendPiece
    \/ \E c \in Client : SesStart(c) \/ ClientStep(c)
    \/ \E c \in Client, k \in Commands : TypeCommand(c, k.op, k.arg)

SesFairness == /\ WF_ses_vars(MasterHandles \/ SendPiece)
               /\ \A c \in Client : WF_ses_vars(ClientStep(c))

SesSpec == SesInit /\ [][SesNext]_ses_vars /\ SesFairness

-----------------------------------------------------------------------------
(* Properties. *)

Dirs == {"root", "home", "sub"}
Args == {".", "..", "home", "sub"}
Requests == [op : {"CNCT"}, from : Client]
              \cup [op : {"CD", "LS"}, from : Client, port : Port, arg : Args, n : Nat]
Replies == [op : {"REJ"}, asker : Client] \cup [op : {"ACP"}, asker : Client, port : Port]
             \cup [op : {"CD"}, asker : Client, n : Nat, ok : BOOLEAN]
             \cup [op : {"LS", "END_LS"}, asker : Client, n : Nat, at : Nat, ok : BOOLEAN]

Listings == [to : Client \cup {0}, n : Nat, idx : Nat, res : BOOLEAN, asker : Client, dir : Dirs]
ClientStates == [pc : {"off", "cnct", "prompt", "CD", "LS"}, port : Port, arg : Args \cup {""}, n : Nat,
                 out : Seq(Replies), res : 0 .. 2, dir : Dirs \cup {""}]

\* Types, and queues that never hold more than they have room for.
SesTypeOK ==
    /\ client_addrs \in [Port -> Client \cup {0}] /\ n_conns \in Nat
    /\ path \in Seq(Dirs) /\ path # <<>> /\ refused \subseteq Client
    /\ listing \in Listings \cup {Nobody} /\ cl \in [Client -> ClientStates]
    /\ mq \in Seq(Requests) /\ Len(mq) <= SesCap
    /\ cq \in [Client -> Seq(Replies)] /\ \A c \in Client : Len(cq[c]) <= SesCap

\* An address has at most one port, n_conns is the number of ports taken, and
\* the assertion of try_assign_port on a full table holds, whatever requests
\* are repeated.
PortsExact ==
    /\ up /\ n_conns = Cardinality(Port \ Assigned(0))
    /\ \A c \in Client : Cardinality(Assigned(c)) <= 1

Waiting(q) == {q[i] : i \in 1 .. Len(q)}

\* As long as no client was refused, a client gets only replies to what it
\* asked itself: the port in its requests is its own.
RepliesToAsker ==
    refused = {} => \A c \in Client : \A m \in Waiting(cq[c]) : m.asker = c

\* Why: the port of a client, of its requests and of its acceptance is the one
\* the table has for it, and what it is sent while it connects is an acceptance.
InSession(c) == cl[c].pc \notin {"off", "cnct"}
OwnPorts ==
    /\ \A c \in Client : InSession(c) => client_addrs[cl[c].port] = c
    /\ \A c \in Client : \A m \in Waiting(cq[c]) :
          /\ m.asker = c /\ m.op # "REJ" /\ (~InSession(c) => m.op = "ACP")
          /\ m.op = "ACP" => client_addrs[m.port] = c
    /\ \A m \in Waiting(mq) : m.op # "CNCT" => client_addrs[m.port] = m.from /\ InSession(m.from)
    /\ listing # Nobody => listing.to = listing.asker /\ InSession(listing.asker)
SessionsInv == SesTypeOK /\ PortsExact /\ (refused = {} => OwnPorts)

\* What ls prints are pieces of the listing it asked for, in order, though some
\* may be missing; if it ends without a failure the last one is there.
ListingInOrder ==
    \A c \in Client : refused = {} /\ cl[c].out # <<>> =>
        /\ \A i \in 1 .. Len(cl[c].out) : cl[c].out[i].n = cl[c].n
        /\ \A i, j \in 1 .. Len(cl[c].out) : i < j => cl[c].out[i].at < cl[c].out[j].at
        /\ cl[c].pc = "prompt" /\ cl[c].res # 0 => cl[c].out[Len(cl[c].out)].op = "END_LS"

\* "Network failure" is only printed when a packet was lost or a client refused.
FailureIsLoss == \A c \in Client : cl[c].res = 0 => losses > 0 \/ refused # {}

\* A client that is alone, and has lost no packet, is where its cd commands
\* brought it.
OwnDirectory ==
    \A c \in Client : cl[c].pc = "prompt" /\ losses = 0 /\ (\A d \in Client \ {c} : cl[d].pc = "off") =>
        cl[c].dir = Current


\* Every cd and every ls comes back to the prompt.
SessionsGoOn == \A c \in Client : []<>(cl[c].pc \notin {"CD", "LS"})

\* The same with several clients.  It does not hold: they share one mirror.
DirectoryPerClient == \A c \in Client : cl[c].pc = "prompt" /\ losses = 0 => cl[c].dir = Current

\* The listing of a directory that is there succeeds.  It does not hold: the
\* piece overlays the status.
LsSucceeds == \A c \in Client : losses = 0 /\ cl[c].arg = "." => cl[c].res # 2

\* Replies reach who asked for them, also after a refusal.  It does not hold: a
\* client that is refused goes on with port 0.
RepliesToAskerAlways ==
    \A c \in Client : \A m \in Waiting(cq[c]) : m.asker = c
=============================================================================
