------------------------------ MODULE Exchange ------------------------------
(***************************************************************************)
(* Request and response over a USB link: send_command (sensact.c) with the *)
(* packets of packet.c and the transfers of plugins/usb.c, against a       *)
(* device that speaks the sensact protocol, may answer late and may be     *)
(* unplugged at any time.                                                  *)
(*                                                                         *)
(* A session is a connected handle with one caller.  All sessions take     *)
(* their packet ids from one counter.  Requests carry a tag, which numbers *)
(* them without wrapping and which the code does not have: properties use  *)
(* it to tell whose answer a caller received.                              *)
(***************************************************************************)
EXTENDS Integers, Sequences

CONSTANTS
    Sessions,       \* the handles in use, each by a caller of its own
    IdMod,          \* number of packet ids, 2^16 in the code
    Concurrent,     \* TRUE when calls on different sessions overlap
    MaxRequests     \* bound on the requests of a behaviour

ASSUME ExchangeAssumption ==
    /\ IdMod \in Nat \ {0}
    /\ Concurrent \in BOOLEAN
    /\ MaxRequests \in Nat

VARIABLES
    counter,        \* packet_counter
    made,           \* history: the number of requests created
    raced,          \* history: two callers were in create_request_packet at a time
    executed,       \* history: the tags of the requests that devices executed
    sending,        \* the tag of the payload that a device has still to send, or 0
    pc,             \* where send_command stands in each session
    request,        \* request_packet, and the id that send_command waits for
    loaded,         \* the value of packet_counter that its increment has read
    response,       \* the response header that was accepted
    result,         \* what the last call of each session returned
    connected,      \* the sessions with session[i].connected
    alive,          \* the sessions whose USB handle works
    plugged,        \* the sessions whose device is plugged in
    toDevice,       \* bulk OUT pipe: requests
    fromDevice      \* bulk IN pipe: response headers and payloads

calling == <<counter, made, raced, request, loaded>>
link    == <<connected, alive, plugged>>
pipes   == <<toDevice, fromDevice>>
device  == <<executed, sending>>
vars    == <<calling, device, pc, response, result, link, pipes>>

Tags == 0 .. MaxRequests
Ids == 0 .. IdMod - 1
Ops == {"get", "set"}
Codes == {"RSP_OK", "RSP_ERROR"}

Requests == [tag : Tags, op : Ops, id : Ids, expected : Ids]
Headers  == [type : {"header"}, tag : Tags, id : Ids, code : Codes, data : BOOLEAN]
Payloads == [type : {"payload"}, tag : Tags]

\* A value is the tag of the request it answers.  Garbage is what an uninitialised
\* buffer holds, Untouched a result variable that was not written.
Garbage == -1
Untouched == -2

Results == [status : {"SA_OK", "SA_ERROR"}, tag : Tags, header : Headers,
            value : Tags \cup {Garbage, Untouched}]

NoRequest == [tag |-> 0, op |-> "get", id |-> 0, expected |-> 0]
NoHeader  == [type |-> "header", tag |-> 0, id |-> 0, code |-> "RSP_OK", data |-> FALSE]

Goto(s, label) == pc' = [pc EXCEPT ![s] = label]

Failed(s) ==
    [status |-> "SA_ERROR", tag |-> request[s].tag, header |-> NoHeader, value |-> Untouched]

Succeeded(s, header, value) ==
    [status |-> "SA_OK", tag |-> request[s].tag, header |-> header, value |-> value]

Return(s, r) ==
    /\ Goto(s, "idle")
    /\ result' = [result EXCEPT ![s] = r]
    /\ response' = [response EXCEPT ![s] = NoHeader]

Init ==
    /\ counter = 0
    /\ made = 0
    /\ raced = FALSE
    /\ executed = {}
    /\ sending = [s \in Sessions |-> 0]
    /\ pc = [s \in Sessions |-> "idle"]
    /\ request = [s \in Sessions |-> NoRequest]
    /\ loaded = [s \in Sessions |-> 0]
    /\ response = [s \in Sessions |-> NoHeader]
    /\ result = [s \in Sessions |-> Failed(s)]
    /\ connected = Sessions
    /\ alive = Sessions
    /\ plugged = Sessions
    /\ toDevice = [s \in Sessions |-> <<>>]
    /\ fromDevice = [s \in Sessions |-> <<>>]

-----------------------------------------------------------------------------
(***************************************************************************)
(* create_request_packet.  It reads packet_counter three times and writes  *)
(* it once, with no lock.                                                  *)
(***************************************************************************)

\* Variant for testing the properties: the counter is wider than the id field.
IncrementWide(i) == i + 1

Increment(i) == (i + 1) % IdMod

MayCall(s) == pc[s] = "idle" /\ (Concurrent \/ \A r \in Sessions : pc[r] = "idle")

\* A name or a value that is too long is refused before an id is taken.
CallRefused(s) ==
    /\ MayCall(s)
    /\ result' = [result EXCEPT ![s] = Failed(s)]
    /\ UNCHANGED <<calling, device, pc, response, link, pipes>>

Creating == {s \in Sessions : pc[s] \in {"expect", "load", "store"}}

\* packet->id = packet_counter
CallStamp(s) ==
    /\ MayCall(s)
    /\ made < MaxRequests
    /\ made' = made + 1
    /\ raced' = (raced \/ Creating # {})
    /\ \E op \in Ops : request' =
        [request EXCEPT ![s] = [tag |-> made + 1, op |-> op, id |-> counter, expected |-> 0]]
    /\ Goto(s, "expect")
    /\ UNCHANGED <<counter, loaded, device, response, result, link, pipes>>

\* Variant: packet_counter is incremented before it is read again.
CallExpectNext(s) ==
    /\ pc[s] = "expect"
    /\ request' = [request EXCEPT ![s].expected = Increment(counter)]
    /\ Goto(s, "load")
    /\ UNCHANGED <<counter, made, raced, loaded, device, response, result, link, pipes>>

\* *id = packet_counter
CallExpect(s) ==
    /\ pc[s] = "expect"
    /\ request' = [request EXCEPT ![s].expected = counter]
    /\ Goto(s, "load")
    /\ UNCHANGED <<counter, made, raced, loaded, device, response, result, link, pipes>>

\* packet_counter++ : the load ...
CallLoad(s) ==
    /\ pc[s] = "load"
    /\ loaded' = [loaded EXCEPT ![s] = counter]
    /\ Goto(s, "store")
    /\ UNCHANGED <<counter, made, raced, request, device, response, result, link, pipes>>

\* ... and the store.
CallStore(s) ==
    /\ pc[s] = "store"
    /\ counter' = Increment(loaded[s])
    /\ loaded' = [loaded EXCEPT ![s] = 0]
    /\ Goto(s, "write")
    /\ UNCHANGED <<made, raced, request, device, response, result, link, pipes>>

-----------------------------------------------------------------------------
(***************************************************************************)
(* usb_write and usb_read.  A transfer needs session[i].connected and a    *)
(* handle that reaches the device; when it is lost (NO_DEVICE or IO, or    *)
(* not connected) usb_reconnect closes the handle and opens a new one,     *)
(* once, and the transfer itself is not repeated.                          *)
(***************************************************************************)

CanTransfer(s) == s \in connected /\ s \in alive

\* usb_reconnect returns SA_OK.
Reconnected(s) ==
    /\ ~CanTransfer(s)
    /\ s \in plugged
    /\ connected' = connected \cup {s}
    /\ alive' = alive \cup {s}
    /\ UNCHANGED plugged

\* usb_reconnect fails: the device is away, or its interface cannot be claimed.
NotReconnected(s) ==
    /\ ~CanTransfer(s)
    /\ connected' = connected \ {s}
    /\ alive' = alive \ {s}
    /\ UNCHANGED plugged

WriteSent(s) ==
    /\ pc[s] = "write"
    /\ CanTransfer(s)
    /\ toDevice' = [toDevice EXCEPT ![s] = Append(@, request[s])]
    /\ Goto(s, "header")
    /\ UNCHANGED <<calling, device, response, result, link, fromDevice>>

\* A timeout: the device may have got the request all the same.
WriteTimeout(s) ==
    /\ pc[s] = "write"
    /\ CanTransfer(s)
    /\ toDevice' \in {toDevice, [toDevice EXCEPT ![s] = Append(@, request[s])]}
    /\ Return(s, Failed(s))
    /\ UNCHANGED <<calling, device, link, fromDevice>>

\* The link is lost and reopened.  usb_write returns its uninitialised count: when
\* that is not negative, send_command goes on without having sent the request.
WriteReconnected(s) ==
    /\ pc[s] = "write"
    /\ Reconnected(s)
    /\ \/ Goto(s, "header") /\ UNCHANGED <<response, result>>
       \/ Return(s, Failed(s))
    /\ UNCHANGED <<calling, device, pipes>>

WriteLost(s) ==
    /\ pc[s] = "write"
    /\ NotReconnected(s)
    /\ Return(s, Failed(s))
    /\ UNCHANGED <<calling, device, pipes>>

\* Variant: the response id is not compared.
VerifiedNoId(s, m) == m.type = "header"

\* verify_response_packet.  A payload that is read in place of a header is refused.
Verified(s, m) == m.type = "header" /\ m.id = request[s].expected

\* Variant: only a get request reads a payload.
HasPayloadGet(s, m) == m.data /\ request[s].op = "get"

HasPayload(s, m) == m.data

\* A response header arrives and is refused, or accepted without a payload (which
\* is a success whatever the response code is), or accepted with a payload.
HeaderRead(s) ==
    /\ pc[s] = "header"
    /\ CanTransfer(s)
    /\ fromDevice[s] # <<>>
    /\ LET m == Head(fromDevice[s])
       IN  \/ /\ ~Verified(s, m)
              /\ Return(s, Failed(s))
           \/ /\ Verified(s, m)
              /\ ~HasPayload(s, m)
              /\ Return(s, Succeeded(s, m, Untouched))
           \/ /\ Verified(s, m)
              /\ HasPayload(s, m)
              /\ response' = [response EXCEPT ![s] = m]
              /\ Goto(s, "payload")
              /\ UNCHANGED result
    /\ fromDevice' = [fromDevice EXCEPT ![s] = Tail(@)]
    /\ UNCHANGED <<calling, device, link, toDevice>>

\* Variant: a read waits for ever.
NoTimeout(s) == FALSE

\* Nothing arrived in time; the answer may still arrive later.
Timeout(s) == CanTransfer(s) /\ fromDevice[s] = <<>>

HeaderTimeout(s) ==
    /\ pc[s] = "header"
    /\ Timeout(s)
    /\ Return(s, Failed(s))
    /\ UNCHANGED <<calling, device, link, pipes>>

\* The link is lost.  When it is reopened, usb_read reports success but the response
\* header still holds zeros, which are not a valid prefix.
HeaderLost(s) ==
    /\ pc[s] = "header"
    /\ Reconnected(s) \/ NotReconnected(s)
    /\ Return(s, Failed(s))
    /\ UNCHANGED <<calling, device, pipes>>

\* Variant: the response code is not looked at.
OutcomeAlwaysOk(s, value) ==
    Succeeded(s, response[s], IF request[s].op = "get" THEN value ELSE Untouched)

\* What send_command returns once it has the payload: RSP_OK copies it to the get
\* variable, RSP_ERROR makes it the error message.
Outcome(s, value) ==
    IF response[s].code = "RSP_OK"
    THEN Succeeded(s, response[s], IF request[s].op = "get" THEN value ELSE Untouched)
    ELSE Failed(s)

PayloadRead(s) ==
    /\ pc[s] = "payload"
    /\ CanTransfer(s)
    /\ fromDevice[s] # <<>>
    /\ Return(s, Outcome(s, Head(fromDevice[s]).tag))
    /\ fromDevice' = [fromDevice EXCEPT ![s] = Tail(@)]
    /\ UNCHANGED <<calling, device, link, toDevice>>

PayloadTimeout(s) ==
    /\ pc[s] = "payload"
    /\ Timeout(s)
    /\ Return(s, Failed(s))
    /\ UNCHANGED <<calling, device, link, pipes>>

\* The link is lost and reopened.  usb_read returns its uninitialised count without
\* having read anything: when that is not negative, the value is whatever the buffer
\* held.
PayloadReconnected(s) ==
    /\ pc[s] = "payload"
    /\ Reconnected(s)
    /\ Return(s, Outcome(s, Garbage)) \/ Return(s, Failed(s))
    /\ UNCHANGED <<calling, device, pipes>>

\* Variant: the result of usb_reconnect is ignored.
PayloadLostUnnoticed(s) ==
    /\ pc[s] = "payload"
    /\ NotReconnected(s)
    /\ Return(s, Outcome(s, Garbage))
    /\ UNCHANGED <<calling, device, pipes>>

PayloadLost(s) ==
    /\ pc[s] = "payload"
    /\ NotReconnected(s)
    /\ Return(s, Failed(s))
    /\ UNCHANGED <<calling, device, pipes>>

-----------------------------------------------------------------------------
(***************************************************************************)
(* The device and its cable, which are not part of the library.            *)
(***************************************************************************)

\* The answers of a device: a get is answered with a value, a set with an empty
\* RSP_OK, and both with an error when the device refuses, with or without a message
\* (create_response_packet accepts every length with every code).
Answers(r) ==
    LET Answer(code, data) ==
            [type |-> "header", tag |-> r.tag, id |-> r.id, code |-> code, data |-> data]
    IN  {Answer("RSP_OK", r.op = "get"), Answer("RSP_ERROR", TRUE), Answer("RSP_ERROR", FALSE)}

\* The device takes its time, before the header and before the payload.
DeviceAnswer(s) ==
    /\ toDevice[s] # <<>>
    /\ sending[s] = 0
    /\ \E h \in Answers(Head(toDevice[s])) :
        /\ fromDevice' = [fromDevice EXCEPT ![s] = Append(@, h)]
        /\ executed' = IF h.code = "RSP_OK" THEN executed \cup {h.tag} ELSE executed
        /\ sending' = [sending EXCEPT ![s] = IF h.data THEN h.tag ELSE 0]
    /\ toDevice' = [toDevice EXCEPT ![s] = Tail(@)]
    /\ UNCHANGED <<calling, pc, response, result, link>>

DevicePayload(s) ==
    /\ sending[s] # 0
    /\ fromDevice' = [fromDevice EXCEPT ![s] = Append(@, [type |-> "payload", tag |-> sending[s]])]
    /\ sending' = [sending EXCEPT ![s] = 0]
    /\ UNCHANGED <<calling, executed, pc, response, result, link, toDevice>>

Unplug(s) ==
    /\ s \in plugged
    /\ plugged' = plugged \ {s}
    /\ alive' = alive \ {s}
    /\ sending' = [sending EXCEPT ![s] = 0]
    /\ toDevice' = [toDevice EXCEPT ![s] = <<>>]
    /\ fromDevice' = [fromDevice EXCEPT ![s] = <<>>]
    /\ UNCHANGED <<calling, executed, pc, response, result, connected>>

\* An I/O error: the handle is of no use any more, what the device has sent stays.
Fault(s) ==
    /\ s \in alive
    /\ alive' = alive \ {s}
    /\ UNCHANGED <<calling, device, pc, response, result, connected, plugged, pipes>>

Plug(s) ==
    /\ s \notin plugged
    /\ plugged' = plugged \cup {s}
    /\ UNCHANGED <<calling, device, pc, response, result, connected, alive, pipes>>

-----------------------------------------------------------------------------
Call(s) == CallRefused(s) \/ CallStamp(s)

CreateStep(s) == CallExpect(s) \/ CallLoad(s) \/ CallStore(s)

WriteStep(s) == WriteSent(s) \/ WriteTimeout(s) \/ WriteReconnected(s) \/ WriteLost(s)

HeaderStep(s) == HeaderRead(s) \/ HeaderTimeout(s) \/ HeaderLost(s)

PayloadStep(s) ==
    PayloadRead(s) \/ PayloadTimeout(s) \/ PayloadReconnected(s) \/ PayloadLost(s)

Step(s) == CreateStep(s) \/ WriteStep(s) \/ HeaderStep(s) \/ PayloadStep(s)

Environment(s) == DeviceAnswer(s) \/ DevicePayload(s) \/ Fault(s) \/ Unplug(s) \/ Plug(s)

Next == \E s \in Sessions : Call(s) \/ Step(s) \/ Environment(s)

Spec == Init /\ [][Next]_vars

\* A caller inside the library keeps running: a transfer ends with its timeout at the
\* latest.  The device and the cable owe nothing.
Fairness == \A s \in Sessions : WF_vars(Step(s))

FairSpec == Spec /\ Fairness

-----------------------------------------------------------------------------
(***************************************************************************)
(* Properties                                                              *)
(***************************************************************************)

Pcs == {"idle", "expect", "load", "store", "write", "header", "payload"}

\* The type invariant of the callers, the links and the pipes.
TypeOK ==
    /\ counter \in Ids
    /\ made \in Tags
    /\ raced \in BOOLEAN
    /\ executed \subseteq Tags
    /\ sending \in [Sessions -> Tags]
    /\ pc \in [Sessions -> Pcs]
    /\ request \in [Sessions -> Requests]
    /\ loaded \in [Sessions -> Ids]
    /\ response \in [Sessions -> Headers]
    /\ result \in [Sessions -> Results]
    /\ connected \subseteq Sessions
    /\ alive \subseteq connected \cap plugged
    /\ plugged \subseteq Sessions
    /\ toDevice \in [Sessions -> Seq(Requests)]
    /\ fromDevice \in [Sessions -> Seq(Headers \cup Payloads)]

\* The answer of an earlier request, left in the pipe by a timeout, is accepted for
\* a later one only after the packet ids have wrapped around in between, or after two
\* callers took ids at a time; and the value a get stores is the payload that came with
\* the accepted header, or garbage when the link was reopened in between.
StaleOnlyAfterWrap ==
    \A s \in Sessions :
        result[s].status = "SA_OK" =>
            /\ \/ result[s].header.tag = result[s].tag
               \/ result[s].tag - result[s].header.tag >= IdMod
               \/ raced
            /\ result[s].value \in {result[s].header.tag, Garbage, Untouched}

\* A call that returns SA_OK was executed: its own request reached the device, which
\* carried it out, whatever timeouts and reconnects happened to the call, one in place of
\* sending the request included (usb.c:148).  Three exceptions: an RSP_ERROR without a
\* message, whose response code send_command never looks at (sensact.c:344); an answer
\* IdMod or more requests old, whose id is that of the present request again; and what
\* follows when two callers took ids at a time.
OkMeansExecuted ==
    \A s \in Sessions :
        LET header == result[s].header
        IN  result[s].status = "SA_OK" =>
                \/ result[s].tag \in executed
                \/ header.code = "RSP_ERROR" /\ ~header.data
                \/ result[s].tag - header.tag >= IdMod
                \/ raced

\* Comment in send_command: "Extract value from response message (if get request)".
\* A get that returns SA_OK stored a value that the device sent.
ValueFromDevice == \A s \in Sessions : result[s].value # Garbage

\* A successful exchange leaves nothing of its answer in the pipe for the next call
\* to stumble over (a lost payload excepted).
CleanAfterOk ==
    \A s \in Sessions :
        /\ pc[s] = "idle"
        /\ result[s].status = "SA_OK"
        /\ result[s].header.tag = result[s].tag
        /\ result[s].value # Garbage
        => \A i \in DOMAIN fromDevice[s] : fromDevice[s][i].tag # result[s].tag

\* A caller whose session lost its link is told: a call never returns SA_OK and
\* leaves the session disconnected.
LossIsReported ==
    [][\A s \in Sessions :
            pc[s] # "idle" /\ pc'[s] = "idle" /\ s \notin connected' =>
                result'[s].status = "SA_ERROR"]_vars

\* The id that send_command waits for is the id in the packet it sends, as long as no
\* two callers were in create_request_packet at a time: it reads packet_counter again
\* after it stamped the packet, and takes no lock (packet.c:97).
ExpectsIdSent ==
    ~raced => \A s \in Sessions :
        pc[s] \in {"load", "store", "write", "header", "payload"} =>
            request[s].id = request[s].expected

\* Every call returns, even when the device never answers and never comes back.
CallReturns == \A s \in Sessions : pc[s] # "idle" ~> pc[s] = "idle"
=============================================================================
