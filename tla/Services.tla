------------------------------ MODULE Services -------------------------------
(***************************************************************************)
(* The services around the trading core, side by side.  They share no      *)
(* state: a behaviour exercises one of them, the part, and the others rest *)
(* in their initial states.                                                *)
(***************************************************************************)
EXTENDS Delegation, TaskScheduler, TradingSystem, Tracing, Heartbeat,
        Buses, FreqtradeClient, LLMGateway, MarketData

VARIABLE part        \* the service that this behaviour exercises

ServiceParts == {"delegation", "scheduler", "trading", "tracing", "heartbeat",
                 "memory bus", "redis bus", "client", "gateway", "data"}

servicesVars == <<delegationVars, schedulerVars, tradingVars, tracingVars, heartbeatVars,
                  memoryBusVars, redisBusVars, clientVars, gatewayVars, sourceVars, part>>

\* What two components start with in two ways is fixed where they rest.
ServicesInit ==
    /\ part \in ServiceParts
    /\ DelegationInit /\ SchedulerInit /\ TradingInit /\ TracingInit /\ HeartbeatInit
    /\ MemoryBusInit /\ RedisBusInit /\ ClientInit /\ GatewayInit /\ SourceInit
    /\ part # "trading" => replaceable
    /\ part # "redis bus" => up

RestBut(x) ==
    /\ part = x /\ UNCHANGED part
    /\ x # "delegation" => UNCHANGED delegationVars
    /\ x # "scheduler" => UNCHANGED schedulerVars
    /\ x # "trading" => UNCHANGED tradingVars
    /\ x # "tracing" => UNCHANGED tracingVars
    /\ x # "heartbeat" => UNCHANGED heartbeatVars
    /\ x # "memory bus" => UNCHANGED memoryBusVars
    /\ x # "redis bus" => UNCHANGED redisBusVars
    /\ x # "client" => UNCHANGED clientVars
    /\ x # "gateway" => UNCHANGED gatewayVars
    /\ x # "data" => UNCHANGED sourceVars

ServicesNext ==
    \/ RestBut("delegation") /\ DelegationNext
    \/ RestBut("scheduler") /\ SchedulerNext
    \/ RestBut("trading") /\ TradingNext
    \/ RestBut("tracing") /\ TracingNext
    \/ RestBut("heartbeat") /\ HeartbeatNext
    \/ RestBut("memory bus") /\ MemoryBusNext
    \/ RestBut("redis bus") /\ RedisBusNext
    \/ RestBut("client") /\ ClientNext
    \/ RestBut("gateway") /\ GatewayNext
    \/ RestBut("data") /\ SourceNext

ServicesSpec == ServicesInit /\ [][ServicesNext]_servicesVars

------------------------------------------------------------------------------
\* Every variable keeps its type.
ServicesTypeOK ==
    /\ DelegationTypeOK /\ SchedulerTypeOK /\ TradingTypeOK /\ TracingTypeOK
    /\ HeartbeatTypeOK /\ MemoryBusTypeOK /\ RedisBusTypeOK /\ ClientTypeOK
    /\ GatewayTypeOK /\ SourceTypeOK
==============================================================================
