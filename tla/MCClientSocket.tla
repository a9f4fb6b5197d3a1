--------------------------- MODULE MCClientSocket ---------------------------
(* Statements of the code's comments and tests about creating a client *)
EXTENDS ClientSocket

(* client.c:132: "Unable to find any address of type domain that binds:    *)
(* default to any af_family": a server that answers EOBIND has tried to    *)
(* bind every address of the list.                                         *)
EveryAddressTried ==
    step = "idle" /\ answer = "EOBIND" /\ ~holds => tried = 1..Len(addrs)

(* webdriverError, client.h:187, on what webdriverCreateClient returns; a  *)
(* client is an address, above every error number                          *)
Value == [EOMEM |-> 0, EOSOCK |-> 1, EOBIND |-> 2, ADDRINFO |-> 4, CLIENT |-> 4096]
webdriverError(r) == Value[r] > 0 /\ Value[r] < 20

(* driver/test/test.c:12: "Could not start web client" is printed when     *)
(* webdriverError holds of the answer: it holds of every answer that is no *)
(* client.                                                                 *)
FailureSeen ==
    step = "idle" /\ answer \in DOMAIN Value /\ ~holds /\ answer # "CLIENT" =>
        webdriverError(answer)
============================================================================
