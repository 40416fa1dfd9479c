# SISGEOB ChileCompra gateway: TLA+ models and proofs

The repository is the gateway through which ChileCompra's users register the
public works of a tender in SISGEOB: a browser wizard talks over a websocket to
a server that reads the tender from Mercado Público, opens a case file in Trew@
and writes the rows of a *project* in Oracle; an HTTP gateway later brings the
adjudications. Nothing in it runs in a transaction: every call of the ORM opens
a connection of its own that commits by itself. What makes the system hard is
therefore what happens *between* calls: other workers, failures, restarts.

Sources are named as `src/...`, relative to the workspace that holds the
repository; the Java code is under `src/src/gea`.

## 1. Inventory

| Component | State it keeps | Operations | Hard behaviours |
|---|---|---|---|
| **Registration saga**: `ControllerMercado.set`, `Formulario`, `RollbackMP` | rows of one project in nine tables (`SISGEOB_OC_REG` included), sequence numbers, Trew@ case files; per request the STATUS, the loop over the forms, the fields of `_FORM` | `mercado/set` with everything it calls | partial failure, interleaving on one line, crash between commits, rollback that fails itself |
| **ORM**: `Model`, `ModelResult`, `OracleConnector` | none of its own (a connection per call) | find, insert, update, delete, getNextVal | failures answered as "no rows", `false`, -1, a null dereference or an IOException, each treated differently by callers |
| **Trew@ client**: `TrewaUtil` | case files (external) | create, assign | failure as "-1", never deleted again |
| **Mercado Público readers**, `Mapeo` | none | read and map a tender or an order | external failure; an order swallows it |
| **Response cache**: `Cache`, `CacheControl`, `Controller`, `Response` | table of replies by request hash, seconds counter | verify, send cached, store, clean (timer, gateway) | check-then-act on a table others replace; replies computed before a clean, stored after it |
| **Adjudication**: `AdjudicacionWs` | updates `GEO_TOMAS_RAZON`, `GEO_OP_ADJUDICACIONES_CONTRATO` rows, contractors | one HTTP call over several orders and lines | two commits and a compensation, races with the saga and with itself, exceptions at five depths |
| **Websocket server, sessions**: `GEOWebSocketHandler`, `Session`, `Key`, packets | table of sessions, keys, temporary objects | open, key agreement, message, close | switch to encrypted packets, close during a request |
| **HTTP gateway**: `Gateway`, `JSONWsp` | none | dispatch | double dispatch of JSON-WSP |
| **Access keys**: `Authprocess`, `Tasklist` | keys with their times | negotiate, check | expiry, time formats |
| **COM**: `com.js` | callbacks, queue, watchdog, buffer of answers, key | request, process, onmessage | calls before the key, a loop over the queue that may not end, answers that never come |
| **Drawing**: `spatial.js`, `geomap.js`, `panel.js`, the KML part of `chilecompra.js` | per line: figures, undo stack; for all: tool, lock, Sin Ubicación, file | draw, undo, redo, remove, load, clear | arrays and stack kept apart by hand, a file read asynchronously, a lock freed by others |
| **Wizard**: forms of `chilecompra.js`, `formulario.js` | lines of the tender, fields of their forms | load, register, finish | handlers taken off the list that is being counted, one STATUS for many lines |
| Read-only controllers, spatial types, vendored code, build | - | queries, geometry, configuration | not about state: not modelled |

How they interact: the browser's packet reaches `onMessage`, which runs the
action (`Controller` -> `ControllerMercado.set`) on the worker thread of the
connection; cached actions go through `Cache` first. `set` calls the ORM and
Trew@ synchronously and answers once, with `SendCallback`. The adjudication
arrives on a servlet thread, updates rows the saga wrote and cleans the cache.
In the browser COM is the only way to the server; what `finish` sends of a line
is what `SPATIAL.get_spatial_send` reads from its arrays at that moment. There
are no locks in the server; what is shared is Oracle, Trew@ and the cache. The
page has one, `$.SYNC`, a number that whoever asks for it may take or hold.

What makes each correct:

* saga: an OK means a whole project; a line has one project and one case file;
  registering a line touches nothing of another line; nothing hangs from a
  project that is gone; a rollback restores what was there; every request ends;
* cache: a clean takes effect; a reply is the action's; entries do not outlive
  the period of the timer;
* adjudication: both tables of a project say the same adjudication, OK means it
  was written, the contractor is the one of the line;
* sessions and COM: both ends use the key from the same packet on; a call is
  carried out and called back at most once, with its own answer; no call waits
  for ever without reason; gateway: a request is dispatched once;
* drawing: what is sent of a line is what its list shows; the three ways of
  giving a location (drawing, file, Sin Ubicación) do not mix;
* keys: none is accepted after its time.

## 2. Plan

Done, in this order:

1. `Registro` - the saga: all the data of the system is written there.
   `MCRegistro` instantiates it; `RegistroProofs` (types),
   `RegistroAislamiento` (lines do not touch each other, what an OK stands for)
   and `RegistroReversion` (what holds of a line only one worker registers) hold
   its proofs.
2. `CacheRespuesta` - the response cache with the controller's dispatch;
   `CacheRespuestaProofs`.
3. `Adjudicacion` - the web service with the gateway that calls it, beside a
   registration that deletes and inserts the same rows; `AdjudicacionProofs`
   (types, contractors, lines) and `AdjudicacionCoherencia` (the two rows).
4. `PedidoRespuesta` - what a request promises, and `Comunicacion` - COM, the
   channels and the session, which implement it; `ComunicacionProofs`.
5. `Trazado` - the geometry of the lines of a tender while it is drawn;
   `TrazadoProofs`.

Left, in the order they would be worth doing: the forms of the wizard composed
with the STATUS of `Registro`; `RegistroAtomico` - what registering promises (a
line has no project or one whole project) and the proof that `Registro` with one
worker per line and no failures implements it; the life of an access key.

## 3. Module `Registro`

### State

A row is reduced to `[tabla, X_PROY, dato]`: its table, the project it hangs
from and the one datum the code reads back (case file in PROY, tender line in
IDMU, comuna in UBIC, whether there is a geometry in SPATIAL). `db` is the set
of rows. `duenoProy` and `duenoExpe` are the histories of the project sequence
and of Trew@: number x was drawn (case file e was created) for that line. A
worker has the program counter `pc` and the locals of `set` and `Formulario`:
`peticion`, `n` (the form being processed), `retorno` (STATUS), `obj` (X_PROY,
EXPETREWA, ROLLBACK of `_FORM`) and `lazo` (indices and rows of inner loops).
`fin`, `antes`, `registradas` are history variables that only properties read;
`fallas`, `recibidas`, `caidas` are counters that only bounds read.

### Steps

One step is one call that commits or reads: the grain at which other workers
and restarts can come between. `Recibe`, `LeeMercado`, `CreaFormulario` are
`onMessage` and the head of `set`; `BuscaAntiguos`, `LeeFoto` (one find of
`RollbackMP` per step), `LeeProyecto`, `Borra` (one delete of `delFromGeo` per
step), `CreaExpediente`, `AsignaServicio` are `getTrewaaExp`; then
`GENERATE_X_PROY` (with `setSPATIAL`), the nine `IN...`/`SAVEOC` calls by their
names, and `Rollback`, `RollbackBorra`, `Restaura` for
`Formulario.rollback`/`RollbackMP.rollback`. `Caida` is a restart.

How failures surface is the code's own: a query that fails answers no rows
(`vacio`), a statement `false`; a connection lost before `prepareStatement` is a
null dereference (`npe`), which `set` only prints; an unreadable configuration
an IOException (`io`), which becomes one of the exceptions `set` answers with a
rollback. So four ways out of a form are kept apart: an exception with rollback
(`Excepcion`), an exception that is printed and a `false` that is ignored
(both `Silencio`: STATUS untouched), and an exception `set` does not catch
(`Escapa`: no reply at all, the remaining forms are not processed).

### Abstractions

* The draw of a row's own id (`SEQ_GEO_CODIGOS_BIP`, ...) is folded into the
  insert that uses it: nothing else reads those ids.
* `LeeMercado`: the five ways reading a tender can fail reply and return alike;
  they are one STATUS, `FALLA MP`.
* Oracle's schema is not in the repository. A restored row is assumed to be
  accepted as it was read, except the geometry, which the code cannot read back;
  rows of `SISGEOB_OC_REG` are never deleted (its model forbids it).
* Dead code is left out: `delFromTrewaa` (the NEWREG branch: every assignment
  `NEWREG = false` of RollbackMP.java:62-69 is outside its `if`), `INBIPWS`,
  `ROLLBACK(ArrayList)`.
* A null X_PROY is 0 (sequences start at 1) and a failed sequence or case file
  is -1, as in the code.

### Properties

| Property | Says |
|---|---|
| `TypeOK` | no row is without the project code it hangs from, no project without its case file (a failed draw or case file is -1, which the code writes), whatever call before the insert failed; no worker is past the end of its forms; STATUS is a word `set` writes |
| `OkRespaldado` | while STATUS is OK some form handled so far has its project with all checked rows and its geometry, whatever later forms did |
| `ExpedienteExclusivo` | projects of two lines never hang from one case file |
| `SoloBorraLoSuyo` | a row disappears only while a worker of its own line is in `delFromGeo` |
| `ReversionFiel` | after a rollback that ended well the line has the rows it had, less the geometry |
| `SinHuerfanas` | no row hangs from a project that does not exist, after any exception or restart |
| `UnicoPorClave` | a line has at most one project |
| `SinPerdida` | a registered line has a whole project whenever nobody is working on it |
| `UnExpedientePorClave` | a line gets one case file in its life |
| `Atendida` | every request is served to its end (checked with forms that are rolled back, not with failed calls: `propias` has none) |

### Runs

`CHECK_DEADLOCK FALSE` everywhere: after `MaxPeticiones` requests nothing is
left to do.

| Run | Instance | Shows |
|---|---|---|
| `fallas` | 1 worker, 2 lines, requests of one or two forms (good, refused, unreadable, unknown comuna, order), 2 requests, 2 failures of every kind but `seq` | `TypeOK`, `OkRespaldado`, `ExpedienteExclusivo`, `SoloBorraLoSuyo` |
| `excepciones` | 1 worker, 1 line, every kind of form, 3 requests, 2 IOExceptions, 1 restart | `ReversionFiel`, `SinHuerfanas`, `UnicoPorClave` |
| `propias` | 2 workers, a line each, 3 requests, no failures, fairness | `SinPerdida`, `UnExpedientePorClave`, `Atendida` |
| `dos_veces` | 2 workers on one line (one of them has a second one), 2 requests | `UnicoPorClave` violated |
| `alta_fallida` | 1 worker, 1 line, 1 request | `AltaFallidaSinRastro` violated |
| `respuesta_ok` | 1 worker, 2 lines, one insert refused | `OkDeTodos` violated |

Why the bounds suffice. Three requests for one line are a registration, a
re-registration (snapshot, delete, insert) and a further one over whatever the
second left; a fourth meets no new kind of state. What two workers on one line may do to
*other* lines needs no run: `ExpedienteSiempre` and `SoloLoSuyoSiempre` (section
9) prove it for any workers and lines; and for workers that share no line the five
properties of `excepciones` and `propias` about one line are proved for any number
of requests. Two failures are one that
leaves the saga half way and one that hits the rollback or the next attempt.
Two lines are what a property about "another line" needs, two workers what a
race needs. Two comunas make UBIC the table with several rows, the one the
snapshot treats differently.

What a property does *not* claim is as important. `ReversionFiel`,
`SinHuerfanas` and `UnicoPorClave` are checked under exceptions and restarts
but not under statements that answer `false`, which the code ignores and which
break all three; `SinPerdida` only without failures, since a restart between
`delFromGeo` and `INPROYECTO` does lose the line; `UnExpedientePorClave` only
without failures, since a look-up that fails looks like a new line.

### Fairness

`FairSpec` gives weak fairness to `Paso(w)` of every worker: the pool of the
websocket server keeps its threads running and each call it waits for returns.
`Recibe` (a client) and `Caida` have none. The code has no timeouts; a call that
never returned would hold its worker for ever, and this the model assumes away.

## 4. Module `CacheRespuesta`

### State

`tabla` and `nula` are the field `Cache.table`: a function from requests (the
SHA-1 of controller, action and data) to what was stored, and whether the field
holds `null` at the moment. A stored answer is the version its data had in the
database when the action queried it (`base` holds the current versions), or
`Vacio` for the answer of a query that failed. A worker has the point it has
reached (`pc`), the `Request`/`Response` in its hands (`res`: request, route,
letter under test, accesses done, answer to be stored) and the packet it sent
last (`fin`). A cleaner - the daemon of `CacheControl` or an HTTP thread - has
the statement of `Clean` it stands at (`limpia`); `cuenta` is the daemon's
counter. `cruce` and `pisado` record that a put or a Clean overlapped a put or a
request: `cruce` decides whether a put may lose entries, `pisado` is what the
properties and the proof speak of.

### Steps

Every access of the table is a step of its own: `policie` (`verifyCache`),
`verifyCacheType`, `getCache` (three accesses each at most: has, type, data),
`setCache` (has) and `pone` (the put, with its beginning and its end apart).
`accion` is the query. An unchecked exception takes a request to the route
`DEFAULT` the first time and out of the controller the second (`Lanza`).
`Clean` is `CleanLargo` (the println that dereferences the table),
`CleanAnula`, `CleanCrea`; `CleanCache` starts it for an HTTP thread, `cleanup`
is one round of the daemon.

### Abstractions

* Only routes with cache are modelled; the others do not touch the table. The
  policy answers yes for all of them.
* The table is an `org.json` object over a `HashMap` that nothing synchronizes.
  Two puts that overlap may lose any entries, a look-up that overlaps a put may
  miss its entry. A resize of a `HashMap` by two threads may also loop for ever:
  this the model leaves out, and `Atendida` holds without it.
* The field is not `volatile`; a thread that went on seeing an older table would
  be one more late store, which the model has, or an old answer served once.
* `Cache.getInstance()` before the websocket server is up builds a cache nobody
  uses: the model starts with the server.
* Error packets carry no session, so `PacketBase.send` swallows them: the client
  sees nothing. `Final` keeps what the server meant to send.

### Properties

| Property | Says |
|---|---|
| `ErrorSoloPorCruce` | a request with an action ends without data only if its query failed or a Clean or another put overlapped it: the up to seven accesses of one request agree with one another otherwise |
| `CambioVisible` | once the data stay as they are, the entries end up agreeing with them, late stores and stored failures included |
| `DaemonVive` | the daemon is not ended by an exception (while it is the only cleaner) |
| `Atendida` | every request ends |

### Runs

All of them check deadlock.

| Run | Instance | Shows |
|---|---|---|
| `cache_cruces` | 2 workers, requests answered by an object, an array and by no action, daemon with period 1, an HTTP cleaner, 1 failed query | `TypeOK`, `ErrorSoloPorCruce` |
| `cache_cambios` | 2 workers on one request, 1 change of its data, 1 failed query, daemon with period 2, fairness | `DaemonVive`, `CambioVisible`, `Atendida` |
| `cache_daemon` | 2 workers, 2 requests, the daemon and an HTTP cleaner | `DaemonVive` violated |

Why the bounds suffice. Two workers are what a put that overlaps another, or a
look-up that overlaps a put, needs; of cleaners, the daemon and one HTTP thread
are all the kinds there are. Three requests are the three ways an answer is
typed. The period of 14400 seconds only spaces the cleanings: with 1 or 2 a
cleaning may fall between any two accesses, and may be far enough for a request
to be stored, served from the cache and cleaned.

`CambioVisible` is checked with the daemon as the only cleaner. With an HTTP
cleaner the daemon may die (`cache_daemon`), and then nothing expires an entry
any more: the property is false, for the reason that finding gives.

### Fairness

`FairSpec` gives weak fairness to `Paso(w)`, to `Clean(l)` and to `cleanup`: the
threads run, each query returns, `Thread.sleep(1000)` returns and a Clean that
has begun goes on. Requests, calls of CLEANCACHE and changes of the data have
none. `RunServer` stays true, so the daemon's loop does not end.

## 5. Module `Adjudicacion`

### State

`proy`, `idmu`, `tora`, `adju` are the rows of a project the web service reads or
writes: whether GEO_PROYECTOS has it, its tender lines, and its rows of
GEO_TOMAS_RAZON and GEO_OP_ADJUDICACIONES_CONTRATO, reduced to the dispatch that
wrote them last (0: the registration; `Sin`: there is no row) and the contractor.
`contratistas` are the pairs of a contractor's number and RUT; `duenio` and
`numero` are the histories of the two sequences. A thread of the servlet
container has the point it is at (`pc`) and the locals of `Adjudicacion` (`loc`:
the orders, the indices, the contractors of the items, the projects still to
visit, what was read for the rollback, STATUS and ORDES_BACK); `respuesta` is the
STATUS it answered, `otravez` that Gateway will dispatch once more. `reg` is a
registration under way. `solo`, `ajenas`, `roto` are history: whether a thread
had its project for itself, the lines others touched meanwhile, the projects on
which a pair of updates was cut short or crossed.

### Steps

`process` and `processwsp` are the dispatch (a JSON-WSP request is dispatched by
the constructor of `JSONWsp`, whose status is then overwritten, and again by
`Gateway`). Then one step per call to Oracle or Mercado Público, in the order of
`AdjudicacionWs.java`: `EmpiezaOrden`, `BuscaLlave`, `getMercado`; per item
`BuscaContratista`, `NumeroContratista`, `AltaContratista`; per line `BuscaLinea`;
per project `LeeProyecto`, `RespaldaTora`, `RespaldaAdju`, `ActualizaTora`,
`ActualizaAdju`, `UPDATEOC`, and `Deshace` for the compensation; `INTRANS` and
`response`. `Registra`, `delFromGeo`, `INFilas` are the part of the saga that
touches these four tables, row by row and without its failures; `Caida` is a
restart.

The ways out of a call are kept apart as the code does: an exception inside a
line or an order leaves the rest of it undone and marks the STATUS
(`FallaLinea`, `FallaOrden`); an IOException escapes to Gateway, which answers
500 (`Escapa`); a date nobody can read, or an element without ORDER (whose catch
throws itself), ends the whole call with FAIL, although earlier orders were
written. What is easily overlooked and is modelled: an UPDATE of a row that is
gone succeeds; an update of a purchase order that answers `false` goes unnoticed;
one that throws makes the line fail although both its rows were written; a
contractor whose insert throws leaves 6730 as for a deserted line, an IOException
0, a failed sequence -1, and the order goes on to OK; two threads may insert one
unknown contractor under two numbers; an order without ITEMS is OK.

### Abstractions

* The data of an adjudication are the number of the dispatch. That the
  compensation rewrites the dates in the format `find` gives them is a choice of
  `Deshace`: it may be refused, and nobody looks (the message says ROLLBACK APPLY
  either way).
* The registration runs here without failures; `Registro` has them. It writes 0
  over an adjudication, since it deletes the project.
* Reading the parameters of the call, the dates of TRANS and the response's
  second writing (a JSON-WSP call is answered twice) are left out.
* The cleaning an OK ends with is `CleanCache` of `CacheRespuesta`. IMPACT, FAIL
  and 500 do not clean although rows were written; the next round of the daemon
  does (`CambioVisible`). That cleaning may itself throw, and then a call that
  wrote everything is answered 500.

### Properties

| Property | Says |
|---|---|
| `Coherente` | both rows of a project tell of one dispatch, unless two threads crossed on it, the pair was cut short by an escaping exception or a restart, or the compensation was refused |
| `OkEscrito` | OK means that every line of every order has a project and both rows of all its projects carry this dispatch, unless somebody else registered or adjudicated the line meanwhile |
| `ContratistaFiel` | the contractor of an adjudication has the RUT Mercado Público gave for that very line |
| `SoloSuLinea` | a row is only written by a thread that is at the line the project was registered for |
| `Atendida` | every call is answered |

The exceptions in `Coherente` and `OkEscrito` are history variables set by the
very steps that cause them; a later pair of updates by a thread alone with the
project takes it off `roto` again.

### Run

| Run | Instance | Shows |
|---|---|---|
| `adjudica` | 2 threads, 2 calls: a tender of one line, also by JSON-WSP, and a purchase order of two lines (one with two projects, one with none and no contractor) between two badly formed elements; 1 event: any failure, a restart or a registration | all six; 366,390 distinct states |

Two threads are what a crossing needs; two calls make them cross on one line, or
one thread go over what another left. One event is enough for each exception to
be taken at each of its places. `CHECK_DEADLOCK FALSE`: after `MaxLlamadas` calls
nothing is left to do. By hand the instance was also run with all three lines
registrable and the second thread called plainly too (993,317 distinct states),
and its safety properties with two events (2,884,410 distinct states).
For `Coherente`, `ContratistaFiel` and `SoloSuLinea` the bounds do not matter:
they are proved (section 9).

`FairSpec`: weak fairness of `Paso(h)`, the thread of a request the container
took. Calls, failures, restarts and registrations have none.

## 6. Modules `PedidoRespuesta` and `Comunicacion`

`PedidoRespuesta` is the promise of `COM.request` to the page: a call is carried
out at most once, its callback is called at most once and with the answer of its
own query; a call made with `buffered` may be given the answer an equal query got
before, without being carried out.

### State and steps of `Comunicacion`

The fields of COM by their names (`readyState`, `stack`, `list`, `watchdog`,
`buffer`; `aes` says whether it has a key; `porGuardar` is `databank.stack`), the
turn `i` of `process`, the two channels, and of the server's session `Encrypt`.
`pedidos`, `ejecutado`, `fallidos`, `llamado`, `recibido` are the history of each
call, from which the refinement mapping computes its state.

The page is one thread: `Pide` (a call of `request`, or its waiting in the
queue), `check` (a tick of the watchdog), `onmessage` are events that run to
their end. Only `process` is cut into its turns (`unqueued`, `procesada`): a turn
whose request is not accepted does `i--` and is done again, so the loop may never
end (`Colgada`), and then nothing else runs in the page. `onOpen`, `onMessage`
(with `log` and `accion`) are the server's; `Cierra` is the loss of the
connection, at either end or between, with all that was on its way.

### Abstractions

* AES and the numbers of the key agreement are whether an end has the key; a
  packet written with one setting and read with the other is unreadable.
* `before` and `done` belong to the event that calls back; what a callback asks
  for is a step of its own. Collisions of the hash are ignored, duplicates of a
  packet are impossible (TCP).
* 403, 404 and 500 are one kind of error packet. None of them reaches the
  client: whoever makes them sets no session, and `PacketBase.send` swallows the
  null dereference (PacketBase.java:73), though com.js:151-154 has alerts for them.
* No caller in the repository uses `sync` or `buffered`; COM offers them, and the
  model has them.

### Properties

| Property | Says |
|---|---|
| `ClaveDeAcuerdo` | whatever is next in a channel is read with the setting it was written with, and only `user/log` goes in clear |
| `EsperaVigilada` | a call that waits has a tick to come, or process has it in hand |
| `CuelgueExplicado` | process hangs only on a call without its fields or behind one with `sync` |
| `Cumple` | COM, channels and session implement `PedidoRespuesta` |
| `Respondidos` | every complete call is called back, unless its action failed, the connection went, process hangs or a `sync` call was made |

### Run

`com_fiel`: four calls, made once each at any moment: two of one query and
`buffered`, one `sync`, one without callback; the connection may close, any
action may fail. 4,585 distinct states. The kinds of call are all there are; two
equal `buffered` calls are what the buffer needs. `CHECK_DEADLOCK FALSE`: when
the calls are made and answered, or the connection is gone, nothing is left.

`FairSpec`: weak fairness of the events the browser delivers (`check`,
`unqueued`, `procesada`, `onmessage`), of the server's worker (`onMessage`) and of
the opening being decided one way or the other. `Pide` and `Cierra` have none.

## 7. Module `Trazado`

### State

`spatial[l]` are the settings of the `SPATIAL` of line l: the arrays of points
and lines, the undo stack with `postack` (from 0; -1 nothing done; -2 below that)
and `type` (2 once a file gave it its geometry). Shared by all: `ID_BUSY` (the
lock of `$.SYNC`: 1 Sin Ubicación, 2 KML, 3 drawing, -1 free), `tool`,
`noubication`, `BLOCK_SPATIAL`; of the map, what a click does (`clic`), the line
begun (`trazo`) and whether it is near enough to draw (`cerca`: zoom of 17 or
more); `barra`, the buttons that are shown; `kml` and `leyendo`, the file; `popup`,
the open box of a figure. `otra` and `ajena` are history.

### Steps

Each action is one event of the page, run to its end or to the exception it
throws: the tools (`addMarker`, `addLinea`, `regla`, `pan`, `undoNodes`,
`redoNodes`), the listeners of the map, which ask for no lock (`clicPunto`,
`clicLinea`, `dblclick`, `zoom_changed`), the panel (`actual_geom`, `trash`,
`abre`, `tremove`, `activa`, `desactiva`, `add_comuna`, `remove_point`,
`verify_all_info`) and the file (`adjunta`, then at any later moment `onload`,
`onloadOtro`; `borraKml`). Faithfully kept: `splice(indexOf(f), 1)` removes the
last figure when f is not there; `forward` pushes the *record* of the stack, not
its figure, so that `print`, `clear` and `get_spatial_send` throw on it later
(spatial.js:375-380, `Rota`); a placemark that names no line of the tender stops
the file half way, with `tool` at 2 and no button to undo it.

### Abstractions

* A point or line is an identity, a kind and where it came from. Placemarks are
  points and a file has at least one; a line begun with fewer than two points is
  `trazo = 0`.
* Not modelled: the display of the map, the `disabled` of the upload button, rows
  of the list that are stale while Sin Ubicación is on, the layers of `modal.js`.
  `compare()` of spatial.js answers false always, so its clone is dead code.
* Bounds: `MaxFiguras` figures are made in all; per line one removal of a figure
  that is no longer listed (its box outlives it).

### Properties

| Property | Says |
|---|---|
| `EnviaLoListado` | what is sent of a line (its arrays) is what its list shows (its stack up to `postack`), kind by kind and in order, unless a removal missed its figure on that line |
| `Exclusion` | as long as nobody freed the lock while what it guards was there, the three ways of locating do not mix, on all lines at once |

The exemptions name two errors the code does have: `otra`, a box left open whose
button splices with -1 (spatial.js:58); `ajena`, that `verify_geom` of one empty
line frees the lock of all (spatial.js:466-471), as the trash of the file does
(chilecompra.js:948). With them set the properties are false; what the run shows
is that there is no third way.

### Run

`trazado`: 2 lines, 2 figures, files of one placemark, of two, and of two whose
second names no line; deadlock is checked. 1,303,691 distinct states. Two lines
are what one line freeing the lock of another needs; two figures what an order,
a wrong removal or a redo needs. By hand also 1 line and 3 figures (2,037,983
distinct states). No liveness: the page only reacts.

## 8. What the code does otherwise than it says

* **Two projects for one line** (`dos_veces`): look-up and insert are many
  commits apart and nothing reserves the line.
* **A failed new registration leaves its rows** (`alta_fallida`): `rollback`
  dereferences the missing `RollbackMP`; the exception leaves `set`.
* **OK for a tender of which a line failed** (`respuesta_ok`): an insert that
  answers `false` leaves STATUS as an earlier form set it.
* **A cleaning over HTTP can end the daemon** (`cache_daemon`): the table is null
  between two statements of Clean, and `run` catches only `InterruptedException`.

Others were met while modelling; no text of the repository contradicts them, or
no run isolates them:

* a rollback restores a project without its geometry (`find` cannot read the
  column back, Model.java:584-592), which `ReversionFiel` leaves out;
* a worker that queried before a cleaning stores its answer after it, so that the
  cleaning an adjudication ends with may not reach it (`CambioVisible` says that
  the next one of the daemon does);
* an entry cleaned between *has* and *get* sends a request to the route DEFAULT,
  since the controller takes any exception for a route that does not exist
  (Cache.java:53, Controller.java:39-41); `ErrorSoloPorCruce` says it needs the
  crossing;
* error packets never reach the client (section 6): after an exception the
  browser waits for ever;
* Sin Ubicación erases drawings without the prompt of panel.js:86-89 once
  `verify_geom` of an empty line has freed the lock (spatial.js:466-471);
* `$.GEO.EVENTS.TRIGGER` takes handlers off the end of the list it counts up
  (chilecompra.js:53-66): with four or more some never run; the second
  `loadForms` empties selections made in the first (line 306); the
  subclassifications that come back are given to the form shown then (line 261).

## 9. Proofs

`RegistroProofs` proves, for every value of the constants that meets
`RegistroAssumption`, `TipoCorrecto == Spec => []TypeOK`. `TypeOK` alone is not
inductive: a worker inside the loop reads `Form(w)`, the n-th form of its
request, which exists only because of where the worker is, and writes rows with
an X_PROY and an EXPETREWA that `delFromGeo` and `new Formulario` leave null. The
invariant is `TInv == TypeOK /\ ConFormulario /\ ConCodigo`; `TInvSiempre` states
it. `ConFormulario` says that past the head of the loop `n` is an index of the
forms; `ConCodigo` that at every insert the worker has a project code, drawn
since the last `delFromGeo`, and that it keeps a case file from where it read or
created it to `INPROYECTO`. Proved first are `PasoCodigo` and `PasoRango`; the
rest has one step per action and under it one per group of variables; the lemmas
say what the rows and records are and what their updates preserve
(`FilaNuevaTipo`, `GuardableTipo`, `ObjetoPone`, `LazoPone`, `CuentaTipo`).

`RegistroAislamiento` proves, under the same assumption,

* `ExpedienteSiempre == "seq" \notin Fallas => (Spec => []ExpedienteExclusivo)`,
* `SoloLoSuyoSiempre == "seq" \notin Fallas => (Spec => SoloBorraLoSuyo)`.

Neither property is inductive: what a worker will delete, or which case file it
will write, was decided many steps earlier, when it read rows other workers may
have deleted since. The invariant `IInv == TInv /\ InvDb /\ InvHilo` carries that
decision along. `InvDb` says that a row hangs from a project that was drawn, that
an IDMU row names the line it was drawn for and that the case file of a PROY row
was created for that line. `InvHilo` says the same of a worker: its X_PROY, its
EXPETREWA, the rows of its snapshot, the projects it has still to delete and the
rows it has still to restore belong to the line of its form, at every point where
it has them (`Sano`). It is inductive because what belongs to a line never
changes line: the sequences only grow (`Extiende`, `SanoCrece`), so that what one
worker holds survives the draws of all the others (`PasoOtros`, `Junta`), a look-up
by line yields rows of the line (`BuscaAntiguosBien`) and an insert writes only
what the worker holds (`AltaBien`). Workers that share a line are not excluded,
nor are failures or restarts.

The assumption is needed. When `getNextVal` fails it answers -1, which the code
takes for a project code: rows of different lines then hang from project -1, and
whoever registers one of these lines again deletes the rows of all of them.

The same module proves

* `OkRespaldadoSiempre == LineasPropias /\ "seq" \notin Fallas => (Spec => []OkRespaldado)`.

STATUS is one per request, and the property speaks of it until the next request
comes: long after the form that wrote OK, other forms and other workers delete
projects. The invariant adds to `IInv` which form gave the OK and that its
project is whole (`InvRespaldo`: the form is behind the loop, or the loop has
just left it), that the rows of the checked inserts are there as far as a worker
has come (`InvAltas`), and that workers serve requests of their clients
(`InvPedido`). Only `INSPATIAL` writes OK, only `Recibe` and `Avanza` move the
loop (`PasoEfecto`); a row only goes in `delFromGeo`, of the line being
registered (`SoloBorran`, `SeQuedan`), and nobody registers the line of a form
that is over (`LineaLibre`). That last step is where `LineasPropias` comes in: a
request has each line once and two workers have none in common. Without it the
property is false, as it should be: a second registration of the line deletes
the project the first OK stood for and may fail afterwards. No kind of failure
but `seq` is excluded, nor are restarts; the run `fallas` checks one worker, the
theorem covers any number.

`RegistroReversion` proves what holds of a line only one worker registers, for
any number of workers, lines, comunas and requests:

* `UnicoSiempre`, `SinHuerfanasSiempre`, `ReversionSiempre`: `UnicoPorClave`,
  `SinHuerfanas` and `ReversionFiel`, from `LineasSeparadas /\ SoloExcepciones`;
* `SinPerdidaSiempre`: `SinPerdida`, from `LineasSeparadas /\ SinCortes /\
  ConMapa /\ ConComunas`;
* `UnExpedienteSiempre`: `UnExpedientePorClave`, from `LineasSeparadas /\
  SinCortes /\ ConMapa` and `"bandeja" \notin Fallas`.

`LineasSeparadas` says that no two workers register the same line (a client may
register its own again); `SoloExcepciones` that no query answers "no rows", no
statement `false` and no sequence -1 because it failed, but anything may throw and
the server may restart; `SinCortes` that only Mercado Público and Trew@ fail and
nothing restarts; `ConMapa` that every form carries its geometry and `ConComunas`
that it has a comuna. Each is needed, and the code says why: with two workers on a
line look-up and insert are many commits apart (the run `dos_veces`); a `false` of
a delete or an insert is ignored (TLC finds the state that breaks the invariant);
an exception that `set` only prints, or a restart, between `delFromGeo` and the last
insert leaves the line without its project, and a form without geometry or without
comunas is such an exception; when the assignment of the service fails after the
case file was created, the next attempt creates a second one.

The first three rest on `VInv == IInv /\ InvPedido /\ InvCuadra /\ InvSabe /\
InvFin`. `InvCuadra` says of the rows of every line, at every moment, that one
project at most has its key, that none is without its project and that only the
comunas take more than one row of a table. `InvSabe` says, for each point of
`getTrewaaExp`, of the inserts and of the rollback, how those rows relate to what
the worker holds: which tables of the old project are gone, what the snapshot has
of the rows it found (`Leida`, `Salvada`), that no key is left when a new one is
about to be written, which rows of the snapshot are back (`Vuelve`). `InvFin` is
`ReversionFiel` itself, for every worker. That nobody else touches the rows of the
line is where `LineasSeparadas` comes in; that a step did what it answered, where
`SoloExcepciones` does. `BInv` adds how far the checked inserts are (`InvAltas`) and
that a form under way has no outcome yet (`InvEnCurso`); `PInv`, that a line
registered once has a whole project unless a worker is replacing it
(`InvRegistradas`), who then has found a whole one and can put it back
(`InvGuarda`); `EInv`, that no two case files are of one line (`InvUno`), and that a
line with a case file has a key that leads to it or a worker that will write it
(`InvAbiertos`), so that none is created for such a line (`InvFicha`).

`CacheRespuestaProofs` proves, from `CacheAssumption`:

* `CacheTipos == Spec => []TypeOK`, inductive as it stands: a new entry comes
  from a `Respuesta`, and the counter is tested before it is incremented.
* `CacheErrores == Spec => ErrorSoloPorCruce`. The inductive invariant is
  `InvTrabajo /\ InvFin`: a worker nobody has overlapped since its request
  arrived sees a table that is not null and that nobody is putting into, is still
  on its own route, and what it has found so far is still there and of the letter
  it is left with. It survives because every step that would break it (a put that
  begins or ends, the two assignments of Clean) marks all other requests under
  way as overlapped (`PutTrabajo`, `CleanTrabajo`), and all the other steps touch
  nothing that another worker relies on (`ObreroAjeno`).
* `CacheDaemon == Limpiador = {} => (Spec => []DaemonVive)`: without HTTP
  cleaners only the daemon can have made the field null, so it never finds it so.
  Together with the run `cache_daemon` this pins the failure on the web services.

`ComunicacionProofs` proves, from `ComAssumption`:

* `TipoCorrecto == Spec => []TypeOK`;
* `MismaClave == Spec => []ClaveDeAcuerdo`. The head of a channel says too
  little: `InvClave` describes both channels whole. Until the page has answered
  the hello, that hello is all there is; then `user/log` is the only packet in
  clear and nothing comes down; from the server's `log` on everything in both
  channels is encrypted and both ends have the key;
* `ColaVigilada == Spec => []EsperaVigilada`;
* `CuelgueSiempre == Spec => []CuelgueExplicado`. That process hangs is seen at one
  of its turns; the call with `sync` that explains it may be many turns behind.
  `InvTurno` remembers it: process only goes on without `readyState` behind such a
  call;
* `CumplePromesa == Spec => Cumple`, the refinement of `PedidoRespuesta`.
  `InvPromesa` says for each call in how many places it is: in the queue, on its
  way up, carried out, on its way down, called back; these exclude one another,
  since nothing is sent twice, and what comes down or lies in the buffer answers
  its own query. Each step of `Comunicacion` is then one step of
  `PedidoRespuesta` or none.

`AdjudicacionProofs` proves, from `AdjudicacionAssumption`,

* `AdjudicacionTipos == Spec => []TypeOK`,
* `AdjudicacionContratistas == Spec => []ContratistaFiel`,
* `AdjudicacionLinea == Spec => SoloSuLinea`.

A thread indexes orders, items and contractors by counters it incremented in
other steps, and writes a project it learnt of from a query long before. `IInv`
says (`Bien`) what a thread holds at each point: indices inside their lists, a
contractor with the RUT of its item for every item passed, projects that were
drawn for its line. As both sequences only grow, what one thread holds survives
every step of the others, and of the registration (`DeCrece`, `BienCrece`).

`AdjudicacionCoherencia` proves `CoherenteSiempre == Spec => []Coherente`. The
invariant adds to `IInv`: who believes to be alone with a project is (`InvSolo`);
the two rows come and go in an order in which nobody holds a row that is not
there yet (`InvOrden`); and a thread between its two updates, on a project
nothing was cut short on, is the only one there, the first row is the one it
wrote and the second the one it read, or gone (`InvPar`): so that going forward
and going back both bring the rows together. Steps that touch neither row fall
under one lemma (`LejosBien`), those by which a thread lets go of a project under
another (`SueltaBien`), those of the registration under a third (`RegistroBien`).

The same module proves `OkEscritoSiempre == Spec => []OkEscrito`. The OK is
answered once, for all the orders of a call, long after each line was written. The
invariant `OInv == InvPromete /\ InvPropias /\ InvBajas`, over `IInv`, says of a
thread whose STATUS is still OK what it has behind it: the lines it has passed and
the projects of its line it has visited carry its dispatch in both rows, and those
it has yet to visit are all the others, except on lines somebody else has had
meanwhile (`InvPromete`, by `Avance`); on the rest no other thread and no
registration is at work (`InvPropias`); and what a registration deletes is of the
line it registers (`InvBajas`).

`TrazadoProofs` proves, from `TrazadoAssumption`, for any number of lines, figures
and placemarks,

* `TrazadoTipos == Spec => []TypeOK`,
* `EnviaLoListadoSiempre == Spec => []EnviaLoListado`,
* `ExclusionSiempre == Spec => []Exclusion`.

The types need the second property: that a removal leaves `postack` inside its
stack depends on whether the figure was in the array, which only the
correspondence with the list tells. `TInv == TypeOK /\ InvSana /\ InvCaja`: every
SPATIAL is sane (`Sana`: no figure twice in the stack, none newer than the count,
comunas only under Sin Ubicación, `postack` at -2 only after a missed removal, and
the arrays reflect the stack), and a box open while Sin Ubicación is on cannot
remove. One lemma per operation of a SPATIAL says that it stays sane (`PoneSana`,
`UndoSana`, `ForwardSana`, `BorraSana`, `SacaSana`, `VaciaSana`); they rest on what
an append, or the removal of one entry from each side, does to the correspondence
(`ReflejaMas`, `ReflejaQuita`, `ReflejaQuitaOtro`).

`Exclusion` adds `InvLlave`: until the lock is freed in use, who has it is who
started what there is - the click and the line begun on the map, the file, Sin
Ubicación, and each figure of each line. A free lock then guards nothing, so that
taking it breaks nothing (`Pasa`), and an operation on a SPATIAL leaves no figure
of anyone else (`Hereda`, `HeredaLlave`): redo brings back figures of the stack,
none of which is a comuna's once Sin Ubicación is off.

A file is read by induction on its placemarks (`CargaLee`). The library's induction
theorems cannot be instantiated here, but the well-foundedness of < on the naturals
can be cited, and `Induccion` states the principle for *sets* of numbers.

Only model-checked: `CambioVisible`, `Respondidos` and the three `Atendida`, which
are liveness under fairness, out of the prover's reach. The four runs that expect a
violation are counterexamples, not theorems.

## 10. Not modelled

The components marked so in `PROJECT.json`, each with its reason. In particular:

* the forms of the wizard (`chilecompra.js` outside the KML part,
  `formulario.js`): what a form holds is spread over the fields of the page, the
  templates and closures per line; its handlers' order and its reading of STATUS
  are described in section 8, not modelled;
* access keys (one row, checked once), the read-only controllers (queries),
  spatial types and projections (floating point, Oracle objects), the data of a
  purchase order beyond that it is saved;
* of the saga: texts of replies, logging, the SQL text and its quoting, and the
  visibility of uncommitted data (there is none: every statement commits);
* of the cache: the endless loop of a `HashMap` resized by two threads;
* vendored code: of the JavaScript in the repository the greatest part is
  Angular, jQuery (twice), jQuery UI (twice), bigInt and their like; the project's
  own is `app/controller`, `com.js` and `gea`, of which COM and the drawing are
  modelled.
