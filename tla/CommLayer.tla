------------------------------ MODULE CommLayer ------------------------------
(***************************************************************************)
(* The communication layer of one process (src/common/comm.c) over the MPI *)
(* module (src/modules/module_mpi.c): it interposes MPI_Init, MPI_Init_    *)
(* thread and MPI_Finalize, keeps a communicator of the node's processes,  *)
(* caches what it asks MPI, and owns the buffers of the exchange.          *)
(*                                                                         *)
(* Abstracted: the four cached values are one, the size of the node; a     *)
(* buffer is its length in doubles; an MPI call that fails ends the        *)
(* process, and is left out.                                               *)
(***************************************************************************)
EXTENDS Integers

CONSTANT NodeSize           \* processes of the node communicator

ASSUME NodeSizeAssumption == NodeSize \in Nat \ {0}

Undefined == -1             \* SABO_COMM_UNDEF_VALUE, and no buffer window
NoBuffer  == 0

VARIABLES
    mpi,            \* MPI itself: not initialised yet, initialised, finalised
    loaded,         \* __sabo_module_funcs is filled in
    initialized,    \* sabo_mpi_module_initialized
    nodeComm,       \* there is a node communicator, with its translated ranks
    nodeSize,       \* the static value of comm_get_node_size
    bufferWindow,   \* __sabo_comm_buffer_window
    recvBuffer,     \* length of the buffer __sabo_comm_recv_buffer points at
    sendAsked       \* history: comm_get_send_buffer stored a buffer there first

commVars == <<mpi, loaded, initialized, nodeComm, nodeSize, bufferWindow,
              recvBuffer, sendAsked>>

CommInit == /\ mpi = "before"
            /\ loaded = FALSE /\ initialized = FALSE /\ nodeComm = FALSE
            /\ nodeSize = Undefined /\ bufferWindow = Undefined
            /\ recvBuffer = NoBuffer /\ sendAsked = FALSE

CommTypeOK == /\ mpi \in {"before", "up", "over"}
              /\ {loaded, initialized, nodeComm, sendAsked} \subseteq BOOLEAN
              /\ nodeSize \in {Undefined, NodeSize}
              /\ bufferWindow \in Nat \cup {Undefined}
              /\ recvBuffer \in Nat
-----------------------------------------------------------------------------
\* A faulty version: the layer counts as initialised as long as it is loaded.
CommUpWhileLoaded == loaded

\* comm_is_initialized.
CommUp == loaded /\ initialized

\* MPI itself, and the flag that says so.
PMPIInitThread == mpi = "before" /\ mpi' = "up" /\ initialized' = TRUE

PMPIFinalize   == mpi = "up" /\ mpi' = "over" /\ initialized' = FALSE

\* The communicator of the node and its ranks in the world come and go together.
AllocNodeComm == nodeComm' = TRUE

FreeNodeComm  == nodeComm' = FALSE

\* comm_get_node_size asks once.
CacheNodeSize == nodeSize' = IF nodeSize = Undefined THEN NodeSize ELSE nodeSize

FreeBuffers == /\ bufferWindow' = Undefined
               /\ recvBuffer' = NoBuffer /\ sendAsked' = FALSE

\* MPI_Init_thread: the module is loaded and says it is initialised, then
\* comm_init splits the world and fills in what is cached.
MPIInitThread ==
    /\ loaded' = TRUE /\ PMPIInitThread
    /\ AllocNodeComm /\ CacheNodeSize
    /\ UNCHANGED <<bufferWindow, recvBuffer, sendAsked>>

\* MPI_Finalize: the buffers and the communicator go, then the flag; the
\* functions stay loaded and the cached values stay what they were.
MPIFinalize ==
    /\ FreeBuffers /\ FreeNodeComm
    /\ PMPIFinalize
    /\ UNCHANGED <<loaded, nodeSize>>

\* The assertions of an exchange of window values: the communicator exists and
\* the buffers were asked for the same window.
CanExchange(window) == nodeComm /\ bufferWindow \in {Undefined, window}

\* comm_get_recv_buffer.
GetRecvBuffer(window) ==
    /\ bufferWindow' = IF bufferWindow = Undefined THEN window ELSE bufferWindow
    /\ recvBuffer' = IF recvBuffer # NoBuffer THEN recvBuffer ELSE nodeSize * window
    /\ UNCHANGED <<mpi, loaded, initialized, nodeComm, nodeSize, sendAsked>>

\* comm_get_send_buffer never sets the pointer it tests: each call stores a
\* buffer of one process in the receive buffer's pointer.
GetSendBuffer(window) ==
    /\ bufferWindow' = IF bufferWindow = Undefined THEN window ELSE bufferWindow
    /\ recvBuffer' = window
    /\ sendAsked' = TRUE
    /\ UNCHANGED <<mpi, loaded, initialized, nodeComm, nodeSize>>

\* What an allgather receives fits in the buffer it is given.
ExchangeFits(window) == NodeSize * window <= recvBuffer
=============================================================================
