---------------------------- MODULE PqosService ----------------------------
(***************************************************************************)
(* What an application may rely on from pqos_init(), the API calls and     *)
(* pqos_fini(): the library is closed, open, or being opened or closed by  *)
(* one thread; the body of an API call runs only while the library is      *)
(* open, and while a body runs nobody else is inside the library.          *)
(***************************************************************************)
CONSTANTS
  Thread,     \* the threads of the application
  NoThread    \* nobody

VARIABLES
  open,       \* the library is initialised
  inside      \* who works on the library's state: <<thread, what it does>>

svars == <<open, inside>>

Nobody == <<NoThread, "nothing">>

SInit == open = FALSE /\ inside = Nobody

\* pqos_init() starts on a closed library ...
StartOpening(t) ==
  /\ ~open /\ inside = Nobody
  /\ inside' = <<t, "init">>
  /\ UNCHANGED open

\* ... and opens it or leaves it closed.
EndOpening(t) ==
  /\ inside = <<t, "init">>
  /\ inside' = Nobody
  /\ open' \in BOOLEAN

\* An API call, or the work of pqos_fini(), starts on an open library.
Start(t, what) ==
  /\ open /\ inside = Nobody
  /\ inside' = <<t, what>>
  /\ UNCHANGED open

EndCall(t) ==
  /\ inside = <<t, "api">>
  /\ inside' = Nobody
  /\ UNCHANGED open

\* pqos_fini() always closes the library.
EndClosing(t) ==
  /\ inside = <<t, "fini">>
  /\ inside' = Nobody
  /\ open' = FALSE

SNext ==
  \E t \in Thread :
     \/ StartOpening(t) \/ EndOpening(t)
     \/ Start(t, "api") \/ EndCall(t)
     \/ Start(t, "fini") \/ EndClosing(t)

SSpec == SInit /\ [][SNext]_svars
=============================================================================
