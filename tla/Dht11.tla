-------------------------------- MODULE Dht11 --------------------------------
(***************************************************************************)
(* The driver of the temperature and humidity sensor                       *)
(* (kernel_modules/edge_dht11/edge_dht11.c): readers serialized by a lock, *)
(* a measurement that counts the edges of the data line in an interrupt    *)
(* handler, a completion with a timeout, the decoder and the cached value. *)
(*                                                                         *)
(* The sensor answers with a train of edges: the host's release of the     *)
(* line (rising), its own response (falling, rising), two edges per bit    *)
(* (falling, rising, and the time to the next edge is the bit), a falling  *)
(* edge and the final release.  Odd edges rise, even ones fall.            *)
(***************************************************************************)
EXTENDS Integers, FiniteSets, FiniteSetsExt

CONSTANTS
    Readers,         \* threads reading the IIO attributes
    Frames,          \* what the sensor may send
    ByteBits,        \* bits of a byte: 8
    MaxEdges,        \* EDGE_DHT11_MAX_EDGES: 90
    MaxHumidity,     \* 100000
    MaxTemperature,  \* 80000
    NoReader, NoFrame

DataBits == 5 * ByteBits             \* EDGE_DHT11_DATA_BITS
ExpectedEdges == 2 * DataBits + 3    \* EDGE_DHT11_EXPECTED_EDGES
WireEdges == 2 * DataBits + 5        \* edges from the release of the line to its end

ASSUME Dht11Assumption ==
    /\ ByteBits \in Nat \ {0} /\ MaxEdges \in Nat /\ MaxEdges >= ExpectedEdges
    /\ Frames \subseteq [1..DataBits -> {0, 1}]
    /\ NoReader \notin Readers /\ NoFrame \notin Frames

VARIABLES
    reader,       \* place of each reader
    lock,         \* holder of sensor->lock
    edge_count,   \* sensor->edge_count
    completed,    \* sensor->completion
    irq,          \* whether the interrupt is requested
    wait_result,  \* result of the wait
    ret,          \* result of edge_dht11_measure()
    value,        \* humidity_milli_percent and temperature_milli_c
    fresh,        \* whether the last success is younger than EDGE_DHT11_CACHE_VALID_NS
    frame,        \* the frame the sensor is sending
    wire,         \* edges it has sent
    first,        \* edges that came before the interrupt was requested
    good          \* value of the last successful measurement (ghost)

sensorVars == <<frame, wire>>
cacheVars == <<value, fresh, good>>
dhtVars == <<reader, lock, edge_count, completed, irq, wait_result, ret, first,
             sensorVars, cacheVars>>

SensorValues == [humidity : Int, temperature : Int]
NoValue == [humidity |-> 0, temperature |-> 0]
ReaderPCs == {"idle", "lock", "update", "low", "release", "irq", "wait", "free", "check",
              "decode", "stop", "unlock"}
Measuring == {"low", "release", "irq", "wait", "free", "check", "decode", "stop"}

DhtTypeOK ==
    /\ reader \in [Readers -> ReaderPCs]
    /\ lock \in Readers \cup {NoReader}
    /\ edge_count \in -1..MaxEdges /\ completed \in BOOLEAN /\ irq \in BOOLEAN
    /\ wait_result \in {"done", "timeout", "killed"} /\ ret \in {"ok", "error"}
    /\ value \in SensorValues /\ good \in SensorValues /\ fresh \in BOOLEAN
    /\ frame \in Frames \cup {NoFrame} /\ wire \in 0..WireEdges /\ first \in 0..WireEdges

\* edge_dht11_probe
DhtInit ==
    /\ reader = [r \in Readers |-> "idle"]
    /\ lock = NoReader /\ edge_count = -1 /\ completed = FALSE /\ irq = FALSE
    /\ wait_result = "done" /\ ret = "ok" /\ value = NoValue /\ fresh = FALSE /\ good = NoValue
    /\ frame = NoFrame /\ wire = 0 /\ first = 0
-----------------------------------------------------------------------------
(***************************************************************************)
(* The decoder.  edges[i] is the edge of the train after the first + i     *)
(* that came before it.                                                    *)
(***************************************************************************)
\* level of the line after edge k of the train, and whether it stays high for long
Level(k) == k % 2
Long(k) == IF k <= 3 THEN 1 ELSE frame[(k - 3) \div 2]

Rising(offset, i) == offset + 2 * i - 1
Falling(offset, i) == offset + 2 * i

InStep(offset) ==
    \A i \in 1..DataBits : Falling(offset, i) < edge_count
                           /\ Level(first + Rising(offset, i) + 1) = 1

\* the bits that are read from an offset
Captured(offset) == [i \in 1..DataBits |-> Long(first + Rising(offset, i) + 1)]

\* edge_dht11_bits_to_byte: the high bit comes first
Byte(bits, b) ==
    MapThenSumSet(LAMBDA j : bits[ByteBits * (b - 1) + j] * 2^(ByteBits - j), 1..ByteBits)

Checked(bits) ==
    (Byte(bits, 1) + Byte(bits, 2) + Byte(bits, 3) + Byte(bits, 4)) % 2^ByteBits = Byte(bits, 5)

Reading(bits) == [humidity |-> Byte(bits, 1) * 1000 + Byte(bits, 2) * 100,
                  temperature |-> Byte(bits, 3) * 1000 + Byte(bits, 4) * 100]

InRange(v) ==
    /\ v.humidity \in 0..MaxHumidity
    /\ v.temperature \in 0..MaxTemperature

\* what edge_dht11_decode(sensor, offset) computes, before it looks at the range
Matches(offset) == InStep(offset) /\ Checked(Captured(offset))
Decoded(offset) == Reading(Captured(offset))

\* a plausible bug: the number of edges that came is left out of account
OffsetsFixed == 0..2

\* the offsets tried, from the largest to 0
Offsets == 0..(2 + edge_count - ExpectedEdges)

\* what the sensor meant, and whether it arrived as it was meant
Sent(f) == Reading(f)
Genuine(f) == Checked(f) /\ InRange(Sent(f))
-----------------------------------------------------------------------------
(***************************************************************************)
(* edge_dht11_read_raw and edge_dht11_update.                              *)
(***************************************************************************)
StepTo(r, pc) == reader' = [reader EXCEPT ![r] = pc]

Read(r) ==
    /\ reader[r] = "idle" /\ StepTo(r, "lock")
    /\ UNCHANGED <<lock, edge_count, completed, irq, wait_result, ret, first, sensorVars, cacheVars>>

Lock(r) ==
    /\ reader[r] = "lock" /\ lock = NoReader /\ lock' = r /\ StepTo(r, "update")
    /\ UNCHANGED <<edge_count, completed, irq, wait_result, ret, first, sensorVars, cacheVars>>

\* a signal interrupts the wait for the lock
Interrupt(r) ==
    /\ reader[r] = "lock" /\ StepTo(r, "idle")
    /\ UNCHANGED <<lock, edge_count, completed, irq, wait_result, ret, first, sensorVars, cacheVars>>

\* edge_dht11_update: within two seconds of a success the value is reused
Update(r) ==
    /\ reader[r] = "update" /\ ret' = "ok"
    /\ IF fresh
         THEN StepTo(r, "unlock") /\ UNCHANGED <<completed, edge_count>>
         ELSE StepTo(r, "low") /\ completed' = FALSE /\ edge_count' = 0
    /\ UNCHANGED <<lock, irq, wait_result, first, sensorVars, cacheVars>>

\* the read returns the value, or the error in ret
Unlock(r) ==
    /\ reader[r] = "unlock" /\ StepTo(r, "idle") /\ lock' = NoReader
    /\ UNCHANGED <<edge_count, completed, irq, wait_result, ret, first, sensorVars, cacheVars>>
-----------------------------------------------------------------------------
(***************************************************************************)
(* edge_dht11_measure.  Driving the line and requesting the interrupt may  *)
(* fail; the sensor starts to answer when the line is released, and may    *)
(* stay silent or stop anywhere.                                           *)
(***************************************************************************)
Fail(r) == StepTo(r, "stop") /\ ret' = "error"

DriveLow(r) ==
    /\ reader[r] = "low"
    /\ \/ StepTo(r, "release") /\ UNCHANGED ret
       \/ Fail(r)
    /\ UNCHANGED <<lock, edge_count, completed, irq, wait_result, first, sensorVars, cacheVars>>

ReleaseLine(r) ==
    /\ reader[r] = "release"
    /\ \/ StepTo(r, "irq") /\ UNCHANGED ret /\ frame' \in Frames
       \/ Fail(r) /\ UNCHANGED frame
    /\ UNCHANGED <<lock, edge_count, completed, irq, wait_result, first, wire, cacheVars>>

RequestIrq(r) ==
    /\ reader[r] = "irq"
    /\ \/ StepTo(r, "wait") /\ irq' = TRUE /\ first' = wire /\ UNCHANGED ret
       \/ Fail(r) /\ UNCHANGED <<irq, first>>
    /\ UNCHANGED <<lock, edge_count, completed, wait_result, sensorVars, cacheVars>>

\* the completion, the timeout of a second, or a fatal signal
Wait(r) ==
    /\ reader[r] = "wait" /\ StepTo(r, "free")
    /\ \/ completed /\ wait_result' = "done"
       \/ ~completed /\ wait_result' \in {"timeout", "killed"}
    /\ UNCHANGED <<lock, edge_count, completed, irq, ret, first, sensorVars, cacheVars>>

FreeIrq(r) ==
    /\ reader[r] = "free" /\ StepTo(r, "check") /\ irq' = FALSE
    /\ UNCHANGED <<lock, edge_count, completed, wait_result, ret, first, sensorVars, cacheVars>>

\* a plausible bug: the lock is kept when the measurement is given up
CheckKeepsLock(r) ==
    /\ reader[r] = "check"
    /\ IF wait_result = "killed" \/ (wait_result = "timeout" /\ edge_count < ExpectedEdges)
         THEN StepTo(r, "idle") /\ UNCHANGED ret
         ELSE StepTo(r, "decode") /\ UNCHANGED ret
    /\ UNCHANGED <<lock, edge_count, completed, irq, wait_result, first, sensorVars, cacheVars>>

Check(r) ==
    /\ reader[r] = "check"
    /\ IF wait_result = "killed" \/ (wait_result = "timeout" /\ edge_count < ExpectedEdges)
         THEN Fail(r)
         ELSE StepTo(r, "decode") /\ UNCHANGED ret
    /\ UNCHANGED <<lock, edge_count, completed, irq, wait_result, first, sensorVars, cacheVars>>

\* a plausible bug: a value out of range counts as an update
DecodeRefreshes(r) ==
    /\ reader[r] = "decode" /\ StepTo(r, "stop")
    /\ LET matching == {o \in Offsets : Matches(o)}
           fine == {o \in matching : InRange(Decoded(o))}
       IN  /\ ret' = IF fine # {} THEN "ok" ELSE "error"
           /\ value' = IF matching # {} THEN Decoded(Max(matching)) ELSE value
           /\ good' = IF fine # {} THEN value' ELSE good
           /\ fresh' = (fresh \/ matching # {})
    /\ UNCHANGED <<lock, edge_count, completed, irq, wait_result, first, sensorVars>>

\* The value is written before its range is checked: when no offset succeeds, the
\* last one whose checksum is right has left its value behind.
Decode(r) ==
    /\ reader[r] = "decode" /\ StepTo(r, "stop")
    /\ LET matching == {o \in Offsets : Matches(o)}
           fine == {o \in matching : InRange(Decoded(o))}
       IN  \/ /\ fine # {} /\ ret' = "ok" /\ fresh' = TRUE
              /\ value' = Decoded(Max(fine)) /\ good' = value'
           \/ /\ fine = {} /\ ret' = "error"
              /\ value' = IF matching # {} THEN Decoded(Min(matching)) ELSE value
              /\ UNCHANGED <<fresh, good>>
    /\ UNCHANGED <<lock, edge_count, completed, irq, wait_result, first, sensorVars>>

\* what the sensor still sends is of no consequence
StopCapture(r) ==
    /\ reader[r] = "stop" /\ StepTo(r, "unlock") /\ edge_count' = -1
    /\ frame' = NoFrame /\ wire' = 0 /\ first' = 0 /\ wait_result' = "done"
    /\ UNCHANGED <<lock, completed, irq, ret, cacheVars>>
-----------------------------------------------------------------------------
\* The sensor sends an edge: edge_dht11_irq_handler, if the interrupt is requested.
\* Edges that come after it was freed change nothing.
Edge ==
    /\ \E r \in Readers : reader[r] \in {"irq", "wait", "free"}
    /\ wire < WireEdges /\ wire' = wire + 1
    /\ IF irq /\ edge_count \in 0..MaxEdges - 1
         THEN /\ edge_count' = edge_count + 1
              /\ completed' = (completed \/ edge_count' >= ExpectedEdges)
         ELSE UNCHANGED <<edge_count, completed>>
    /\ UNCHANGED <<reader, lock, irq, wait_result, ret, first, frame, cacheVars>>

\* two seconds pass
Expire ==
    /\ fresh /\ fresh' = FALSE
    /\ UNCHANGED <<reader, lock, edge_count, completed, irq, wait_result, ret, first,
                   sensorVars, value, good>>

Measure(r) ==
    \/ DriveLow(r) \/ ReleaseLine(r) \/ RequestIrq(r) \/ Wait(r) \/ FreeIrq(r)
    \/ Check(r) \/ Decode(r) \/ StopCapture(r)

Proceed(r) == Update(r) \/ Measure(r) \/ Unlock(r)

DhtNext ==
    \/ \E r \in Readers : Read(r) \/ Lock(r) \/ Interrupt(r) \/ Proceed(r)
    \/ Edge \/ Expire

\* A reader runs on, and a mutex that is released again and again is not always given to
\* others; the sensor need not answer.
DhtFairness == \A r \in Readers : WF_dhtVars(Proceed(r)) /\ SF_dhtVars(Lock(r))

DhtSpec == DhtInit /\ [][DhtNext]_dhtVars
-----------------------------------------------------------------------------
(***************************************************************************)
(* A value read back within two seconds is that of the last successful     *)
(* measurement, although a failed one may have overwritten the fields.     *)
(***************************************************************************)
CacheIsLastGood == fresh => value = good

(***************************************************************************)
(* From a frame that arrives intact a measurement returns what the sensor  *)
(* sent or nothing, wherever in the train the interrupt was requested and  *)
(* however many edges came before it was freed, although other offsets are *)
(* tried.  One case is left to the checksum: the release of the line was   *)
(* counted as well, and the reader woke before the last edge of the data.  *)
(***************************************************************************)
DecodedIsSent ==
    \A r \in Readers :
        reader[r] = "stop" /\ ret = "ok" /\ frame # NoFrame /\ Genuine(frame) =>
            value = Sent(frame) \/ (first = 0 /\ edge_count = ExpectedEdges)

(***************************************************************************)
(* Every read returns, even if the sensor is silent, a GPIO call fails or  *)
(* another reader's measurement is killed: the lock is always released.    *)
(***************************************************************************)
EveryReadReturns == \A r \in Readers : (reader[r] = "lock") ~> (reader[r] = "idle")
=============================================================================
