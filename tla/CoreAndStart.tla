---------------------------- MODULE CoreAndStart ----------------------------
(***************************************************************************)
(* The controller of the core, and the start of one inbound of its         *)
(* configuration, from validation to a listener.                           *)
(***************************************************************************)
EXTENDS CoreController

CONSTANTS Cases, MaxTries

VARIABLES inbound, policy, host, busy, stage, at, unbound, tries, listener

Start == INSTANCE ListenerStart

ASSUME CasesAssumption == Start!CasesAreTyped

\* An inbound that InboundConfig::validate accepts is refused by its start
\* function only for the machine's sake, and serves what was configured
\* (config.rs 864-1368 against the start_*_listener functions of service.rs).
AcceptedInboundsServe == Start!AcceptedInboundsServe
=============================================================================
