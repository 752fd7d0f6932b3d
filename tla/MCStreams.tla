----------------------------- MODULE MCStreams -----------------------------
(***************************************************************************)
(* The clients of the event stream and the gRPC server for TLC.  They      *)
(* share nothing inside the program, so a behaviour is one of a single     *)
(* part and the others stay as they are.                                   *)
(***************************************************************************)
EXTENDS KafkaProducer, KafkaConsumer, PublisherPool, Subscriber, GrpcServer

VARIABLE service   \* the part that is used

streamVars == <<service, producerVars, consumerVars, publisherVars, subscriberVars, serverVars>>

Init ==
    /\ service \in {"producer", "consumer", "publisher", "subscriber", "server"}
    /\ ProducerInit /\ ConsumerInit /\ PublisherInit /\ SubscriberInit /\ ServerInit
    /\ service # "producer" => ~transactional /\ ~logs_errors
    /\ service # "consumer" => config = CHOOSE c \in Config : TRUE
    /\ service # "subscriber" => settings = [auto |-> FALSE, dead_letters |-> FALSE]

Next ==
    /\ UNCHANGED service
    /\ \/ /\ service = "producer" /\ ProducerNext
          /\ UNCHANGED <<consumerVars, publisherVars, subscriberVars, serverVars>>
       \/ /\ service = "consumer" /\ ConsumerNext
          /\ UNCHANGED <<producerVars, publisherVars, subscriberVars, serverVars>>
       \/ /\ service = "publisher" /\ PublisherNext
          /\ UNCHANGED <<producerVars, consumerVars, subscriberVars, serverVars>>
       \/ /\ service = "subscriber" /\ SubscriberNext
          /\ UNCHANGED <<producerVars, consumerVars, publisherVars, serverVars>>
       \/ /\ service = "server" /\ ServerNext
          /\ UNCHANGED <<producerVars, consumerVars, publisherVars, subscriberVars>>

Spec == Init /\ [][Next]_streamVars /\ ProducerFairness /\ ServerFairness
=============================================================================
