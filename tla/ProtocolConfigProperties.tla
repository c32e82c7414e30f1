---------------------- MODULE ProtocolConfigProperties ----------------------
(***************************************************************************)
(* What get_protocol_config() has to satisfy.                              *)
(***************************************************************************)
EXTENDS ProtocolConfig

\* c is the configuration in force at block k.
InForce(c, k) ==
    \E b \in Updates :
        /\ b <= k
        /\ c = blocks[b].update
        /\ \A a \in Updates : a <= k => a <= b

\* "the checkpoint can never advance past a block that could later reorg and
\* drop a ConfigUpdated event" (service.py:14-16), nor past an event that was
\* not taken over: the cached configuration is the one in force at a final
\* block that is not before the checkpoint - whichever chunk of the scan the
\* event was in, whatever failed after it was found, whatever was reorged and
\* however far the endpoints lag behind each other.
NoUpdateMissed ==
    checkpoint # NoBlock => \E k \in checkpoint .. finalized : InForce(config, k)

\* "oracle-set/threshold changes are observed ~2 epochs late; this latency is
\* deliberate" (service.py:17-18): the threshold that is cached with a
\* configuration is that of the block the configuration was looked up at.
ThresholdAsOfBlock ==
    [][ReadThreshold => threshold' = blocks[toBlock].threshold]_vars

-----------------------------------------------------------------------------

\* main.py calls again and again, every request ends, and some endpoint knows
\* the finalized block.
FairSpec ==
    /\ Spec
    /\ WF_vars(Run)
    /\ WF_vars(GetBlock)
    /\ SF_vars(GetBlock /\ toBlock' = finalized)

\* A finalized update is taken over, also when a call that found it fails or
\* the process restarts in between, unless that happens for ever.
UpdateIsTaken ==
    <>[][~Fail /\ ~Restart]_vars =>
        []<>(checkpoint # NoBlock /\ InForce(config, finalized))

=============================================================================
