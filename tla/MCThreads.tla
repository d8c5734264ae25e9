----------------------------- MODULE MCThreads -----------------------------
(***************************************************************************)
(* One run for four parts of the firmware that share no state: the         *)
(* telemetry client, the accelerometer's bus, the console and the clock.   *)
(* A behaviour moves one of them, which `part` chooses; the others stay as *)
(* they began.  The parts of a component differ in what the environment    *)
(* may do, which keeps its instance small.                                 *)
(***************************************************************************)
EXTENDS MqttClient, SpiBus, Console, Uptime

VARIABLE part

otherVars == <<spiVars, consoleVars, upVars>>
threadsVars == <<part, mqttVars, otherVars>>

\* "requests": the broker sends only answers, so the table is what moves;
\* "stream": it publishes too, or a PINGREQ comes, but it answers no request;
\* "full": one publication more, no answers and no races, so that the table and
\* the ring run full; "prints": three writers and a shell nobody types to;
\* "keys": one writer, and three characters typed.
MqttParts == {"requests", "stream", "full"}
ConsoleParts == {"prints", "keys"}
Parts == MqttParts \cup ConsoleParts \cup {"bus", "clock"}

ThreadsInit ==
  /\ part \in Parts
  /\ MqttInit
  /\ budget = [srv |-> IF part = "full" THEN MaxPublishes ELSE 1,
               unasked |-> IF part = "stream" THEN MaxUnasked ELSE 0]
  /\ SpiInit
  /\ ConsoleInit
  /\ (keys > 0 <=> part = "keys")
  /\ keys > 0 => keys = MaxKeys
  /\ \A w \in Writers : prints[w] = IF part = "prints" \/ (part = "keys" /\ w = "error")
                                    THEN MaxPrints ELSE 0
  /\ UptimeInit

\* Once the two threads have spoilt the ring nothing is claimed of it, and the
\* exploration stops there.
MqttStep ==
  /\ part \in MqttParts /\ "ring" \notin raced
  /\ MqttNext
  /\ part # "requests" => answered' = {}
  /\ part = "full" => raced' = {}
  /\ UNCHANGED <<part, otherVars>>

SpiStep == part = "bus" /\ SpiNext /\ UNCHANGED <<part, mqttVars, consoleVars, upVars>>
ConsoleStep == /\ part \in ConsoleParts /\ ConsoleNext
               /\ UNCHANGED <<part, mqttVars, spiVars, upVars>>
UptimeStep == part = "clock" /\ UptimeNext /\ UNCHANGED <<part, mqttVars, spiVars, consoleVars>>

ThreadsNext == MqttStep \/ SpiStep \/ ConsoleStep \/ UptimeStep

ThreadsSpec == ThreadsInit /\ [][ThreadsNext]_threadsVars /\ MqttFairness
=============================================================================
