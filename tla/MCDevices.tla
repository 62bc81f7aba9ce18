----------------------------- MODULE MCDevices -----------------------------
(***************************************************************************)
(* The blocking queue and three drivers, which share nothing, checked in   *)
(* one run: `driver' picks the one that moves, so that their state spaces  *)
(* add up.                                                                 *)
(***************************************************************************)
EXTENDS BoundedBlockingQueue, Microphone, AlsaDevice, Dht11

VARIABLE driver
deviceVars == <<driver, allVars, micVars, alsaVars, dhtVars>>

DevicesInit ==
    /\ driver \in {"queue", "microphone", "alsa", "dht11"}
    /\ BInit /\ MicInit /\ AlsaInit /\ DhtInit

DevicesNext ==
    \/ driver = "queue" /\ BNext /\ UNCHANGED <<driver, micVars, alsaVars, dhtVars>>
    \/ driver = "microphone" /\ MicNext /\ UNCHANGED <<driver, allVars, alsaVars, dhtVars>>
    \/ driver = "alsa" /\ AlsaNext /\ UNCHANGED <<driver, allVars, micVars, dhtVars>>
    \/ driver = "dht11" /\ DhtNext /\ UNCHANGED <<driver, allVars, micVars, alsaVars>>

DevicesSpec ==
    /\ DevicesInit /\ [][DevicesNext]_deviceVars
    /\ BFairness /\ MicFairness /\ AlsaFairness /\ DhtFairness

\* bytes of one bit: a frame that is out of range, and one that passes the checksum also
\* when it is read one bit late
MCFrames == {<<1,1,0,0,0>>, <<0,0,0,1,1>>}
=============================================================================
