----------------------------- MODULE MC_Services -----------------------------
(* Services that share no state, checked one at a time: which one runs is       *)
(* chosen initially.                                                            *)
EXTENDS Channel, AppService, Descriptors, Keyboard

VARIABLE part    \* the part that runs

channelVars == vars

(* All threads through the Endpoint's lock, or one sender and one receiver on
   the bare ring. *)
SafeUses ==
    {[locked |-> TRUE, threads |-> Threads]} \cup
    {[locked |-> FALSE, threads |-> {p, c}] : p \in Producers, c \in Consumers}

ServicesInit ==
    /\ Init /\ AppInit /\ FdInit /\ KeyInit
    /\ part \in {"Channel", "AppService", "Descriptors", "Keyboard"}
    /\ part # "Channel" => use = CHOOSE u \in Uses : TRUE
    /\ part # "Keyboard" => /\ contexts = CHOOSE c \in Contexts : TRUE
                            /\ data = CHOOSE b \in Scancodes : TRUE

ServicesNext ==
    /\ UNCHANGED part
    /\ \/ part = "Channel" /\ Next /\ UNCHANGED <<appVars, fdVars, keyVars>>
       \/ part = "AppService" /\ AppNext /\ UNCHANGED <<channelVars, fdVars, keyVars>>
       \/ part = "Descriptors" /\ FdNext /\ UNCHANGED <<channelVars, appVars, keyVars>>
       \/ part = "Keyboard" /\ KeyNext /\ UNCHANGED <<channelVars, appVars, fdVars>>

ServicesSpec ==
    ServicesInit /\ [][ServicesNext]_<<channelVars, appVars, fdVars, keyVars, part>>
=============================================================================
