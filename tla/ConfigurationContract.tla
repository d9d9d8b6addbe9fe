----------------------- MODULE ConfigurationContract -----------------------
(***************************************************************************)
(* What setting and looking up an instance's webhook configuration         *)
(* promises, without transactions, locks and cache: calls of Set take      *)
(* effect one after the other, each at one moment and as a whole, on what  *)
(* the one before left; and a dispatcher acts on a configuration that was  *)
(* in effect, now or before.  WebhookConfiguration implements this         *)
(* specification.                                                          *)
(***************************************************************************)
CONSTANTS Setters, Dispatchers, NoSetter

VARIABLES
    config,    \* the configuration in effect
    asks,      \* asks[s]: what call s wants of the events
    written,   \* written[s]: the configuration that s brought into effect
    known      \* known[d]: the configuration d acts on

vars == <<config, asks, written, known>>

Nothing == [url |-> NoSetter, events |-> {}]

Init ==
    /\ config = Nothing
    /\ asks \in [Setters -> {"nothing", "own", "clear"}]
    /\ written = [s \in Setters |-> Nothing]
    /\ known = [d \in Dispatchers |-> Nothing]

\* The events after s, where they were E before.
After(s, E) ==
    CASE asks[s] = "nothing" -> E
      [] asks[s] = "own" -> E \union {s}
      [] asks[s] = "clear" -> {}

Set(s) ==
    /\ written[s] = Nothing
    /\ config' = [url |-> s, events |-> After(s, config.events)]
    /\ written' = [written EXCEPT ![s] = config']
    /\ UNCHANGED <<asks, known>>

\* What was ever in effect.
Past == {Nothing} \union {written[s] : s \in Setters}

Learn(d) ==
    /\ \E v \in Past : known' = [known EXCEPT ![d] = v]
    /\ UNCHANGED <<config, asks, written>>

Next ==
    \/ \E s \in Setters : Set(s)
    \/ \E d \in Dispatchers : Learn(d)

Spec == Init /\ [][Next]_vars

=============================================================================
