------------------------------ MODULE WebClient ------------------------------
(***************************************************************************)
(* A client from its creation to its destruction: the socket of            *)
(* ClientSocket and the buffer of HttpBuffer live in one block             *)
(* (struct Webdriver_Client__, client.h:83-92).  The buffer is used while  *)
(* the caller has a client; webdriverDestroyClient closes the socket,      *)
(* unsets the buffer and frees the block.  webdriverCreateClient gets a    *)
(* zeroed block, so that a new client has no buffer.                       *)
(***************************************************************************)
EXTENDS ClientSocket

CONSTANTS DefSize, Growth, SizeMax, AskSizes, GivenSizes, Methods,
          CmdLens, FieldLens, ValueLens, RawLens, ProtocolLen, MayMove

VARIABLES buf, text, live, bufsize, bufc, malloc, blocks, lost, pc, call, result

Buffer == INSTANCE HttpBuffer
bufferVars == <<buf, text, live, bufsize, bufc, malloc, blocks, lost, pc, call, result>>
allVars == <<vars, bufferVars>>

WebInit == Init /\ Buffer!Init

Create ==
    /\ pc = "idle"
    /\ \/ \E c \in Configs : CreateClient(c)
       \/ Continue
    /\ UNCHANGED bufferVars

UseBuffer ==
    /\ holds /\ step = "idle"
    /\ Buffer!Next
    /\ UNCHANGED vars

(* Mutant of Destroy: the client's fields go, an allocated buffer stays *)
DestroyDropsFields ==
    /\ DestroyClient
    /\ pc = "idle"
    /\ buf' = "none" /\ text' = <<>> /\ live' = FALSE
    /\ bufsize' = 0 /\ bufc' = 0 /\ malloc' = FALSE
    /\ UNCHANGED <<blocks, lost, pc, call, result>>

(* webdriverDestroyClient; with a block that growth moved, unsetting the   *)
(* buffer frees it a second time                                           *)
Destroy ==
    \/ DestroyClient /\ Buffer!Unsetbuf
    \/ holds /\ step = "idle" /\ Buffer!FreedTwice /\ UNCHANGED vars

WebNext == Create \/ UseBuffer \/ Destroy

WebSpec == WebInit /\ [][WebNext]_allVars

---------------------------------------------------------------------------
(* A caller without a client holds nothing: no client block, address list  *)
(* or buffer, and no descriptor but those EOBIND lost; so the next client  *)
(* starts without a buffer and without a claim to one, whatever the one    *)
(* before did with its own (client.c:3-13, 83-207, 251-260).               *)
NothingWithoutClient ==
    /\ step = "idle" /\ ~holds =>
        /\ ~block /\ ~info /\ blocks = 0 /\ lost = 0
        /\ Cardinality(DOMAIN fds) = unbound
    /\ ~holds => buf = "none" /\ ~malloc /\ bufsize = 0 /\ bufc = 0
=============================================================================
