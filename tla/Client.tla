------------------------------ MODULE Client ------------------------------
(***************************************************************************)
(* The client side of CC-SIM: the client logical process (client/client.c) *)
(* with the request functions and response handlers of its protocol       *)
(* (client/protocols/gr.c; grv.c has the same shape), driving one of the  *)
(* three workloads (client/workloads/*.c).  A client reacts to three      *)
(* kinds of event: INIT, which at time 0 is rescheduled a little later    *)
(* and then initialises the client and calls the workload's on_init;      *)
(* CLIENT_TICK, scheduled by the workload, which calls on_tick; and the   *)
(* responses of the servers, which end the request (client_finish_request) *)
(* and call the workload's response handler.                               *)
(*                                                                         *)
(* The servers are abstract: a request travels on a FIFO channel to them, *)
(* and each one is answered once, with a response of its type, after any  *)
(* delay.  Keys are abstracted to the partitions that own them; values,   *)
(* timestamps, statistics and think times are left out.                   *)
(***************************************************************************)
EXTENDS Integers, SequencesExt, BagsExt

CONSTANTS
    Clients,        \* the client logical processes
    WorkloadOf,     \* WorkloadOf[c]: the workload of c (client_setup)
    NumPartitions,  \* cluster->num_partitions
    KeysPerRotx,    \* "values per rotx" / "keys per rotx"
    NumRotx,        \* rotx_put_rr: "number of rotx"
    NumPut,         \* rotx_put_rr: "number of put"
    ProbOps,        \* probabilistic: the requests with a positive probability
    UintBits,       \* width of unsigned int (and int) in the build
    KeyBits         \* width of gr_key (uint64_t), above UintBits

Workloads == {"get_put_rr", "rotx_put_rr", "probabilistic"}
Partitions == 0..(NumPartitions - 1)
Ops == {"get", "put", "rotx"}

ASSUME WorkloadOf \in [Clients -> Workloads]
ASSUME NumPartitions \in Nat \ {0} /\ KeysPerRotx \in Nat \ {0}
ASSUME UintBits \in Nat \ {0} /\ KeyBits > UintBits
ASSUME NumRotx \in Nat /\ NumPut \in Nat /\ ProbOps \subseteq Ops /\ ProbOps # {}

VARIABLES
    ev,          \* ev[c]: the bag of events c scheduled for itself
    requesting,  \* requesting[c]: request_time # -1
    toServer,    \* toServer[c]: requests of c on their way to the servers
    toClient,    \* toClient[c]: responses on their way to c
    wl,          \* wl[c]: the workload's struct state
    round        \* history: partitions of get_put_rr's gets since its last put

vars == <<ev, requesting, toServer, toClient, wl, round>>

(* Before on_init allocates it, a client has no workload state.           *)
NoState == [st |-> "none"]

(* Mutation of IncRange: the bound is treated as exclusive.               *)
IncRangeOff(v, lo, hi) == IF v + 1 >= hi THEN lo ELSE v + 1

(* inc_range (common.h).                                                   *)
IncRange(v, lo, hi) == IF v + 1 > hi THEN lo ELSE v + 1

-----------------------------------------------------------------------------
(* Key choice (cluster.c), with the integer widths of the build.         *)

UintMax == 2^UintBits - 1
IntMin == -(2^(UintBits - 1))
IntMax == 2^(UintBits - 1) - 1
KeyMod == 2^KeyBits

(* The key_max values cluster_random_key accepts: up to INT_MAX (the      *)
(* assertion at cluster.c:50), or UINT_MAX.                               *)
KeyMaxes == (0..IntMax) \cup {UintMax}

(* partition_for_key.                                                     *)
PartitionForKey(k) == k % NumPartitions

(* cluster_random_key: RandomRange is inclusive; with key_max = UINT_MAX  *)
(* it draws an int, which the cast to gr_key sign-extends.                *)
ClusterRandomKey(km) ==
    IF km = UintMax THEN {i % KeyMod : i \in IntMin..IntMax} ELSE 0..km

(* Mutation of ClusterRandomKeyOnPartition: the shifted key is used       *)
(* whenever it did not wrap, without comparing it with key_max.           *)
ClusterRandomKeyOnPartitionNoBound(km, k, part) ==
    LET p == PartitionForKey(k)
        delta == IF p < part THEN part - p ELSE NumPartitions - p + part
        nk == (k + delta) % KeyMod
    IN  CASE p = part -> k
          [] nk > k -> nk
          [] OTHER -> part

(* cluster_random_key_on_partition for the random key k: shift k up to    *)
(* the next key of partition part; if the sum wraps or passes key_max,    *)
(* take the key part itself.                                              *)
ClusterRandomKeyOnPartition(km, k, part) ==
    LET p == PartitionForKey(k)
        delta == IF p < part THEN part - p ELSE NumPartitions - p + part
        nk == (k + delta) % KeyMod
    IN  CASE p = part -> k
          [] nk > k /\ nk <= km -> nk
          [] OTHER -> part

-----------------------------------------------------------------------------
(* client_setup registers each client with the workload of its          *)
(* configuration; the simulator then delivers INIT at time 0 to an LP     *)
(* with no state yet.                                                     *)
Init ==
    /\ ev = [c \in Clients |-> SetToBag({"INIT0"})]
    /\ requesting = [c \in Clients |-> FALSE]
    /\ toServer = [c \in Clients |-> <<>>]
    /\ toClient = [c \in Clients |-> <<>>]
    /\ wl = [c \in Clients |-> NoState]
    /\ round = [c \in Clients |-> <<>>]

-----------------------------------------------------------------------------
(* The client library.                                                    *)

(* client_begin_request and client_send, as every request function of the *)
(* protocol ends (gr_client_get_request, gr_client_put_request,           *)
(* gr_client_rotx_request): the keys of the request live on the           *)
(* partitions parts.                                                       *)
Request(c, type, parts) ==
    /\ requesting' = [requesting EXCEPT ![c] = TRUE]
    /\ toServer' = [toServer EXCEPT ![c] = Append(@, [type |-> type, parts |-> parts])]

(* client_schedule_tick: a CLIENT_TICK after the think time.              *)
ScheduleTick == SetToBag({"TICK"})

-----------------------------------------------------------------------------
(* get_put_rr: a get on each partition in turn, then a put, partitions    *)
(* chosen round-robin.  A handler yields the new workload state, the      *)
(* request it sends, if any, and the events it schedules.                  *)

(* tick: a put once num_get_since_put reached the partition count, else a *)
(* get on the next partition.                                             *)
GetPutTick(s) ==
    IF s.since = NumPartitions
    THEN LET p == IncRange(s.lastPut, 0, NumPartitions - 1)
         IN  [st |-> [s EXCEPT !.since = 0, !.lastPut = p],
              req |-> {[type |-> "put", parts |-> <<p>>]}, evs |-> EmptyBag]
    ELSE LET p == IncRange(s.lastGet, 0, NumPartitions - 1)
         IN  [st |-> [s EXCEPT !.lastGet = p, !.since = @ + 1],
              req |-> {[type |-> "get", parts |-> <<p>>]}, evs |-> EmptyBag]

(* on_init: the last partitions are drawn by random_uint(0,               *)
(* num_partitions), which includes num_partitions; then tick.             *)
GetPutInit ==
    {GetPutTick([st |-> "run", lastGet |-> g, lastPut |-> p, since |-> 0]) :
        g, p \in 0..NumPartitions}

(* on_get_response and on_put_response: schedule the next tick after the  *)
(* think time (target_request_time is 0).                                 *)
GetPutResponse(s, type) == [st |-> s, req |-> {}, evs |-> ScheduleTick]

-----------------------------------------------------------------------------
(* rotx_put_rr: num_rotx read-only transactions, each with keys_per_rotx  *)
(* keys on successive partitions, then puts on partitions counting down.  *)

(* The partitions of the keys of do_rotx, from r on, and the partition    *)
(* the next rotx starts from.                                             *)
RECURSIVE RotxParts(_, _)
RotxParts(r, k) ==
    IF k = 0 THEN [parts |-> <<>>, next |-> r]
    ELSE LET rest == RotxParts(IncRange(r, 0, NumPartitions - 1), k - 1)
         IN  [rest EXCEPT !.parts = <<r>> \o @]

(* do_rotx.                                                                *)
DoRotx(s) ==
    LET rp == RotxParts(s.rotxPart, KeysPerRotx)
    IN  [st |-> [s EXCEPT !.rotxPart = rp.next],
         req |-> {[type |-> "rotx", parts |-> rp.parts]}]

(* do_put.                                                                 *)
DoPut(s) ==
    [st |-> [s EXCEPT !.putPart = IF @ = 0 THEN NumPartitions - 1 ELSE @ - 1],
     req |-> {[type |-> "put", parts |-> <<s.putPart>>]}]

(* Mutation of RotxPutTick: the put branch marks the client as waiting   *)
(* for a rotx response, as a copy of the rotx branch would.               *)
RotxPutTickSwapped(s) ==
    IF s.rotxCount < NumRotx
    THEN LET d == DoRotx(s)
         IN  [st |-> [d.st EXCEPT !.rotxCount = @ + 1, !.st = "WAITING_ROTX_RESPONSE"],
              req |-> d.req, evs |-> EmptyBag]
    ELSE LET d == DoPut(s)
             pc == s.putCount + 1
         IN  [st |-> [d.st EXCEPT !.st = "WAITING_ROTX_RESPONSE",
                                  !.putCount = IF pc < NumPut THEN 0 ELSE pc,
                                  !.rotxCount = IF pc < NumPut THEN 0 ELSE @],
              req |-> d.req, evs |-> EmptyBag]

(* on_tick: a rotx while fewer than num_rotx were done, else a put; after *)
(* the put both counters are reset when put_count < num_put.              *)
RotxPutTick(s) ==
    IF s.rotxCount < NumRotx
    THEN LET d == DoRotx(s)
         IN  [st |-> [d.st EXCEPT !.rotxCount = @ + 1, !.st = "WAITING_ROTX_RESPONSE"],
              req |-> d.req, evs |-> EmptyBag]
    ELSE LET d == DoPut(s)
             pc == s.putCount + 1
         IN  [st |-> [d.st EXCEPT !.st = "WAITING_PUT_RESPONSE",
                                  !.putCount = IF pc < NumPut THEN 0 ELSE pc,
                                  !.rotxCount = IF pc < NumPut THEN 0 ELSE @],
              req |-> d.req, evs |-> EmptyBag]

(* on_init: rotx_partition is drawn by random_uint(0, num_partitions - 1) *)
(* and put_partition starts at 0; then on_tick.                           *)
RotxPutInit ==
    {RotxPutTick([st |-> "SLEEPING", rotxPart |-> r, putPart |-> 0,
                  rotxCount |-> 0, putCount |-> 0]) : r \in Partitions}

(* on_put_response and on_rotx_response: sleep until the next tick.       *)
RotxPutResponse(s, type) ==
    [st |-> [s EXCEPT !.st = "SLEEPING"], req |-> {}, evs |-> ScheduleTick]

-----------------------------------------------------------------------------
(* probabilistic: on every tick a get, a put or a rotx, each with its     *)
(* probability, on random keys.                                           *)

(* on_tick: a request from SLEEPING; RESPONSE_RECEIVED (which no handler  *)
(* sets) goes back to sleep; any other state ends the process (exit(1)).  *)
ProbTick(s) ==
    CASE s.st = "SLEEPING" ->
           {[st |-> [st |-> "WAITING_RESPONSE"], req |-> {r}, evs |-> EmptyBag] :
              r \in {[type |-> o, parts |-> <<p>>] : o \in ProbOps \ {"rotx"}, p \in Partitions}
                    \cup {[type |-> "rotx", parts |-> ps] :
                            ps \in IF "rotx" \in ProbOps
                                   THEN [1..KeysPerRotx -> Partitions] ELSE {}}}
      [] s.st = "RESPONSE_RECEIVED" ->
           {[st |-> [st |-> "SLEEPING"], req |-> {}, evs |-> ScheduleTick]}
      [] OTHER -> {[st |-> [st |-> "EXITED"], req |-> {}, evs |-> EmptyBag]}

(* on_init: SLEEPING, then on_tick.                                        *)
ProbInit == ProbTick([st |-> "SLEEPING"])

(* Mutation of ProbResponse: the handler forgets client_schedule_tick.    *)
ProbResponseNoTick(s, type) == [st |-> [st |-> "SLEEPING"], req |-> {}, evs |-> EmptyBag]

(* on_get_response, on_put_response and on_rotx_response: sleep until the *)
(* next tick.                                                              *)
ProbResponse(s, type) == [st |-> [st |-> "SLEEPING"], req |-> {}, evs |-> ScheduleTick]

-----------------------------------------------------------------------------
(* The workload functions of client c (config->funcs): the possible       *)
(* outcomes of on_init, on_tick and of the response handler for type.     *)
OnInit(c) ==
    CASE WorkloadOf[c] = "get_put_rr" -> GetPutInit
      [] WorkloadOf[c] = "rotx_put_rr" -> RotxPutInit
      [] OTHER -> ProbInit
OnTick(c) ==
    CASE WorkloadOf[c] = "get_put_rr" -> {GetPutTick(wl[c])}
      [] WorkloadOf[c] = "rotx_put_rr" -> {RotxPutTick(wl[c])}
      [] OTHER -> ProbTick(wl[c])
OnResponse(c, type) ==
    CASE WorkloadOf[c] = "get_put_rr" -> GetPutResponse(wl[c], type)
      [] WorkloadOf[c] = "rotx_put_rr" -> RotxPutResponse(wl[c], type)
      [] OTHER -> ProbResponse(wl[c], type)

(* Apply the outcome o of a workload function of c to the workload state, *)
(* the events and, through Request, the channel; e0 is ev without the     *)
(* event being handled.                                                   *)
Apply(c, o, e0, req0) ==
    /\ wl' = [wl EXCEPT ![c] = o.st]
    /\ ev' = [e0 EXCEPT ![c] = @ (+) o.evs]
    /\ IF o.req = {}
       THEN /\ requesting' = req0 /\ UNCHANGED <<toServer, round>>
       ELSE \E r \in o.req :
              /\ Request(c, r.type, r.parts)
              /\ round' = [round EXCEPT ![c] =
                             IF WorkloadOf[c] # "get_put_rr" THEN @
                             ELSE IF r.type = "get" THEN Append(@, r.parts[1]) ELSE <<>>]

Without(c, e) == [ev EXCEPT ![c] = @ (-) SetToBag({e})]

-----------------------------------------------------------------------------
(* client_process_event.                                                  *)

(* Mutation of Init0: the INIT at time 0 is rescheduled and the client is *)
(* also initialised, as if the else branch were missing.                  *)
Init0NoElse(c) ==
    /\ "INIT0" \in BagToSet(ev[c])
    /\ \E o \in OnInit(c) :
          Apply(c, o, [Without(c, "INIT0") EXCEPT ![c] = @ (+) SetToBag({"INIT"})], requesting)
    /\ UNCHANGED toClient

(* INIT at time 0: "don't initialize every client at the same time", the  *)
(* INIT is scheduled again a little later.                                *)
Init0(c) ==
    /\ "INIT0" \in BagToSet(ev[c])
    /\ ev' = [Without(c, "INIT0") EXCEPT ![c] = @ (+) SetToBag({"INIT"})]
    /\ UNCHANGED <<requesting, toServer, toClient, wl, round>>

(* INIT later: client_init (request_time = -1) and the workload's on_init. *)
InitClient(c) ==
    /\ "INIT" \in BagToSet(ev[c])
    /\ \E o \in OnInit(c) :
          Apply(c, o, Without(c, "INIT"), [requesting EXCEPT ![c] = FALSE])
    /\ UNCHANGED toClient

(* CLIENT_TICK: client_tick calls the workload's on_tick.                 *)
ClientTick(c) ==
    /\ "TICK" \in BagToSet(ev[c])
    /\ \E o \in OnTick(c) : Apply(c, o, Without(c, "TICK"), requesting)
    /\ UNCHANGED toClient

(* The servers answer the oldest request of c with a response of its     *)
(* type.                                                                   *)
Serve(c) ==
    /\ toServer[c] # <<>>
    /\ toServer' = [toServer EXCEPT ![c] = Tail(@)]
    /\ toClient' = [toClient EXCEPT ![c] = Append(@, Head(toServer[c]))]
    /\ UNCHANGED <<ev, requesting, wl, round>>

(* A response event: the protocol's handler (get_response, put_response,  *)
(* rotx_response) calls client_finish_request, which clears request_time, *)
(* and the workload's response handler.                                   *)
Receive(c) ==
    /\ toClient[c] # <<>>
    /\ toClient' = [toClient EXCEPT ![c] = Tail(@)]
    /\ Apply(c, OnResponse(c, Head(toClient[c]).type), ev,
             [requesting EXCEPT ![c] = FALSE])

Next ==
    \E c \in Clients :
        \/ Init0(c) \/ InitClient(c) \/ ClientTick(c)
        \/ Serve(c) \/ Receive(c)

(* The simulator delivers every event a client scheduled and every        *)
(* message, and the servers answer every request.                         *)
Fairness ==
    \A c \in Clients :
        /\ WF_vars(Init0(c)) /\ WF_vars(InitClient(c)) /\ WF_vars(ClientTick(c))
        /\ WF_vars(Serve(c)) /\ WF_vars(Receive(c))

Spec == Init /\ [][Next]_vars /\ Fairness
-----------------------------------------------------------------------------
(* Properties.                                                            *)

InFlight(c) == Len(toServer[c]) + Len(toClient[c])

(* A client has exactly one thing going on: an INIT, a tick, or one       *)
(* request or its response in flight; and request_time is set exactly    *)
(* while a request is.  So client_begin_request never finds a request     *)
(* outstanding and client_finish_request never gets a response it did not *)
(* ask for (the assertions at client.c:64 and client.c:78), however the   *)
(* INIT rescheduling, the workloads' ticks and the responses interleave.  *)
OneToken ==
    \A c \in Clients :
        /\ BagCardinality(ev[c]) + InFlight(c) = 1
        /\ requesting[c] <=> InFlight(c) = 1

(* The workloads' own checks never fail: rotx_put_rr's on_tick finds it   *)
(* SLEEPING with rotx_partition in range and each response finds it       *)
(* waiting for that type (rotx_put_rr.c:64-65, 105, 115); probabilistic *)
(* never gets a tick while waiting, which would exit(1); get_put_rr,      *)
(* whose on_rotx_response is NULL, never has a rotx in flight.            *)
WorkloadAsserts ==
    \A c \in Clients :
        LET s == wl[c]
            types == {m.type : m \in Range(toServer[c]) \cup Range(toClient[c])}
        IN  CASE WorkloadOf[c] = "rotx_put_rr" ->
                   /\ "TICK" \in BagToSet(ev[c]) => s.st = "SLEEPING"
                   /\ "put" \in types => s.st = "WAITING_PUT_RESPONSE"
                   /\ "rotx" \in types => s.st = "WAITING_ROTX_RESPONSE"
                   /\ s # NoState => s.rotxPart \in Partitions
              [] WorkloadOf[c] = "probabilistic" -> s.st # "EXITED"
              [] OTHER -> "rotx" \notin types

(* The request c sends in a step, if any.                                 *)
Sent(c) == IF Len(toServer'[c]) > Len(toServer[c]) THEN {Last(toServer'[c])} ELSE {}

(* The partitions the workloads pick: every key is on an existing         *)
(* partition although get_put_rr starts from random_uint(0,               *)
(* num_partitions); get_put_rr gets on every partition exactly once       *)
(* between two puts (its header comment); and a rotx of rotx_put_rr has   *)
(* its keys on different partitions when there are enough of them.        *)
PartitionChoice ==
    [][\A c \in Clients : \A m \in Sent(c) :
          /\ Range(m.parts) \subseteq Partitions
          /\ WorkloadOf[c] = "get_put_rr" /\ m.type = "get" =>
                m.parts[1] \notin Range(round[c])
          /\ WorkloadOf[c] = "get_put_rr" /\ m.type = "put" =>
                Len(round[c]) = NumPartitions
          /\ WorkloadOf[c] = "rotx_put_rr" /\ KeysPerRotx <= NumPartitions =>
                IsInjective(m.parts)]_vars

(* client_random_key_on_partition, whatever key cluster_random_key draws  *)
(* and for every key_max it accepts: each key get_put_rr and rotx_put_rr  *)
(* send for a partition is on that partition (the assertion at            *)
(* cluster.c:81) and is a key of the cluster, at most key_max or one      *)
(* cluster_random_key itself can draw, unless there are fewer keys than   *)
(* partitions; the shift must neither overflow gr_key nor run past        *)
(* key_max.                                                               *)
KeyOnPartition ==
    [][\A c \in Clients : \A m \in Sent(c) :
          WorkloadOf[c] # "probabilistic" =>
            \A km \in KeyMaxes, i \in DOMAIN m.parts :
              \A k \in ClusterRandomKey(km) :
                LET part == m.parts[i]
                    r == ClusterRandomKeyOnPartition(km, k, part)
                IN  /\ PartitionForKey(r) = part
                    /\ r <= km \/ r \in ClusterRandomKey(km) \/ km < part]_vars

(* Every client keeps issuing requests and getting them answered: no      *)
(* workload stops scheduling ticks.                                       *)
Progress ==
    \A c \in Clients : []<>requesting[c] /\ []<>~requesting[c]
====
