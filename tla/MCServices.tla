-------------------------------- MODULE MCServices --------------------------------
(* What runs beside the chain: the transaction pool, the section indexers   *)
(* and the search for logs.                                                 *)
EXTENDS BloomMatcher, TLC
VARIABLES focus, pool, chain, disk, writer, calls, canon, events, prev, stored, known, cascaded,
  shead, update, later, work, moves, lock, inbox, sendCases, active, send, buf, got, life,
  tracked, scope, values, queue, index, event, targets, client, item, uninst, mu, filters,
  expired, scan, victim, store, polled, due, canStart, shouldStart, mining, call, looping,
  syncs, syncing, wmining, heads, seen, isMining, stop, workCh, loops, quitOp, search, recv,
  mustCommit, pushes, tree, head, sides, possible, next, checked, inputs, busy, errors, ready,
  done, results, read, abort, now, pos, best

(* A batch of four headers: known, good, bad and not linked.               *)
Batch4 == <<[linked |-> TRUE, known |-> TRUE, valid |-> TRUE], [linked |-> TRUE, known |-> FALSE, valid |-> TRUE],
            [linked |-> TRUE, known |-> FALSE, valid |-> FALSE], [linked |-> FALSE, known |-> FALSE, valid |-> TRUE]>>
(* The targets of five nonces at five heights.                             *)
Quality == [h \in 1..5 |-> [n \in 0..4 |-> (7 * h + 11 * n) % 13]]
(* Six transactions of two accounts, and three heads of the chain.         *)
tx(a, n, p) == [from |-> a, nonce |-> n, price |-> p]
Ranks == [a |-> 1, b |-> 2]
Txs == {tx("a", 0, 1), tx("a", 1, 1), tx("a", 2, 2), tx("a", 1, 2), tx("b", 0, 2), tx("b", 1, 1)}
PoolGenesis == [txs |-> {}, funds |-> [a |-> 2, b |-> 2]]
PoolHeads == {PoolGenesis, [txs |-> {tx("a", 0, 1)}, funds |-> [a |-> 1, b |-> 2]],
              [txs |-> {tx("a", 0, 1), tx("a", 1, 2)}, funds |-> [a |-> 2, b |-> 1]]}

(* A chain that grows, and chains that fork off it at each depth.          *)
Chains == {[i \in 1..n |-> "a"] : n \in 2..6}
          \cup {<<"a", "a", "a", "b">>, <<"a", "b", "b">>, <<"a", "b", "b", "b", "b">>, [i \in 1..7 |-> "b"]}

(* Two filters that share a bit, over three sections of two blocks.        *)
Vectors == [x |-> [s \in 0..2 |-> {1 - (s % 2)}]]
BloomFilters == <<{{"x"}}, {{"x"}}>>

P == INSTANCE TxPool WITH Acct <- {"a", "b"}, Rank <- Ranks, Tx <- Txs, Heads <- PoolHeads,
  Genesis <- PoolGenesis, GlobalSlots <- 2, GlobalQueue <- 2, AccountSlots <- 1,
  AccountQueue <- 2, PriceBump <- 10, Prices <- {2}, MaxCalls <- 6
I == INSTANCE ChainIndexer WITH Heads <- Chains, Size <- [parent |-> 2, child |-> 4],
  Confirms <- [parent |-> 1, child |-> 0], MayFail <- TRUE, MaxEvents <- 2, MaxMoves <- 5
E == INSTANCE Feed WITH Sender <- {"s1", "s2"}, Sub <- {"x", "y"}, Cap <- 1, MaxSends <- 2
L == INSTANCE FilterSystem WITH Filter <- {"a", "b"},
  typ <- [a |-> "blocks", b |-> "minedAndPending"], Polled <- {"a", "b"}, Cap <- 2,
  MaxEvents <- 2
M == INSTANCE Miner WITH MaxHeads <- 2, MaxCalls <- 2, MaxSyncs <- 1
U == INSTANCE Uncles WITH Generations <- 3, MaxUncles <- 2, MaxBlocks <- 5
V == INSTANCE VerifyHeaders WITH Header <- Batch4, Worker <- {"v", "w"}
C == INSTANCE PocSeal WITH Plots <- <<<<1, 2>>, <<4, 3>>>>, MinNonce <- 2, MaxNonce <- 3,
  quality <- Quality, Others <- {0, 3}, InitBaseTarget <- 4, Window <- 2, Period <- 2,
  MaxDeadLine <- 99, MaxTime <- 7, MaxHeight <- 4, MayFail <- TRUE

(* A behaviour is of one component; the variables of the others stay blank.  *)
MCInit ==
  \/ /\ focus = "pool" /\ P!Init
     /\ canon = 0 /\ events = 0 /\ prev = 0 /\ stored = 0 /\ known = 0 /\ cascaded = 0
     /\ shead = 0 /\ update = 0 /\ later = 0 /\ work = 0 /\ moves = 0 /\ feed = 0 /\ chan = 0
     /\ mux = 0 /\ proc = 0 /\ col = 0 /\ in = 0 /\ req = 0 /\ pend = 0 /\ out = 0 /\ resp = 0
     /\ dist = 0 /\ asked = 0 /\ open = 0 /\ allocs = 0 /\ drain = 0 /\ alive = 0 /\ ret = 0
     /\ quit = 0 /\ kill = 0 /\ err = 0 /\ reader = 0 /\ found = 0 /\ logs = 0 /\ lock = 0
     /\ inbox = 0 /\ sendCases = 0 /\ active = 0 /\ send = 0 /\ buf = 0 /\ got = 0 /\ life = 0
     /\ tracked = 0 /\ scope = 0 /\ values = 0 /\ queue = 0 /\ index = 0 /\ event = 0
     /\ targets = 0 /\ client = 0 /\ item = 0 /\ uninst = 0 /\ mu = 0 /\ filters = 0
     /\ expired = 0 /\ scan = 0 /\ victim = 0 /\ store = 0 /\ polled = 0 /\ due = 0
     /\ canStart = 0 /\ shouldStart = 0 /\ mining = 0 /\ call = 0 /\ looping = 0 /\ syncs = 0
     /\ syncing = 0 /\ wmining = 0 /\ heads = 0 /\ seen = 0 /\ isMining = 0 /\ stop = 0
     /\ workCh = 0 /\ loops = 0 /\ quitOp = 0 /\ search = 0 /\ recv = 0 /\ mustCommit = 0
     /\ pushes = 0 /\ tree = 0 /\ head = 0 /\ sides = 0 /\ possible = 0 /\ next = 0
     /\ checked = 0 /\ inputs = 0 /\ busy = 0 /\ errors = 0 /\ ready = 0 /\ done = 0
     /\ results = 0 /\ read = 0 /\ abort = 0 /\ now = 0 /\ pos = 0 /\ best = 0
  \/ /\ focus = "indexer" /\ I!Init
     /\ pool = 0 /\ chain = 0 /\ disk = 0 /\ writer = 0 /\ calls = 0 /\ feed = 0 /\ chan = 0
     /\ mux = 0 /\ proc = 0 /\ col = 0 /\ in = 0 /\ req = 0 /\ pend = 0 /\ out = 0 /\ resp = 0
     /\ dist = 0 /\ asked = 0 /\ open = 0 /\ allocs = 0 /\ drain = 0 /\ alive = 0 /\ ret = 0
     /\ quit = 0 /\ kill = 0 /\ err = 0 /\ reader = 0 /\ found = 0 /\ logs = 0 /\ lock = 0
     /\ inbox = 0 /\ sendCases = 0 /\ active = 0 /\ send = 0 /\ buf = 0 /\ got = 0 /\ life = 0
     /\ tracked = 0 /\ scope = 0 /\ values = 0 /\ queue = 0 /\ index = 0 /\ event = 0
     /\ targets = 0 /\ client = 0 /\ item = 0 /\ uninst = 0 /\ mu = 0 /\ filters = 0
     /\ expired = 0 /\ scan = 0 /\ victim = 0 /\ store = 0 /\ polled = 0 /\ due = 0
     /\ canStart = 0 /\ shouldStart = 0 /\ mining = 0 /\ call = 0 /\ looping = 0 /\ syncs = 0
     /\ syncing = 0 /\ wmining = 0 /\ heads = 0 /\ seen = 0 /\ isMining = 0 /\ stop = 0
     /\ workCh = 0 /\ loops = 0 /\ quitOp = 0 /\ search = 0 /\ recv = 0 /\ mustCommit = 0
     /\ pushes = 0 /\ tree = 0 /\ head = 0 /\ sides = 0 /\ possible = 0 /\ next = 0
     /\ checked = 0 /\ inputs = 0 /\ busy = 0 /\ errors = 0 /\ ready = 0 /\ done = 0
     /\ results = 0 /\ read = 0 /\ abort = 0 /\ now = 0 /\ pos = 0 /\ best = 0
  \/ /\ focus = "bloom" /\ Init
     /\ pool = 0 /\ chain = 0 /\ disk = 0 /\ writer = 0 /\ calls = 0 /\ canon = 0 /\ events = 0
     /\ prev = 0 /\ stored = 0 /\ known = 0 /\ cascaded = 0 /\ shead = 0 /\ update = 0
     /\ later = 0 /\ work = 0 /\ moves = 0 /\ lock = 0 /\ inbox = 0 /\ sendCases = 0
     /\ active = 0 /\ send = 0 /\ buf = 0 /\ got = 0 /\ life = 0 /\ tracked = 0 /\ scope = 0
     /\ values = 0 /\ queue = 0 /\ index = 0 /\ event = 0 /\ targets = 0 /\ client = 0
     /\ item = 0 /\ uninst = 0 /\ mu = 0 /\ filters = 0 /\ expired = 0 /\ scan = 0 /\ victim = 0
     /\ store = 0 /\ polled = 0 /\ due = 0 /\ canStart = 0 /\ shouldStart = 0 /\ mining = 0
     /\ call = 0 /\ looping = 0 /\ syncs = 0 /\ syncing = 0 /\ wmining = 0 /\ heads = 0
     /\ seen = 0 /\ isMining = 0 /\ stop = 0 /\ workCh = 0 /\ loops = 0 /\ quitOp = 0
     /\ search = 0 /\ recv = 0 /\ mustCommit = 0 /\ pushes = 0 /\ tree = 0 /\ head = 0
     /\ sides = 0 /\ possible = 0 /\ next = 0 /\ checked = 0 /\ inputs = 0 /\ busy = 0
     /\ errors = 0 /\ ready = 0 /\ done = 0 /\ results = 0 /\ read = 0 /\ abort = 0 /\ now = 0
     /\ pos = 0 /\ best = 0
  \/ /\ focus = "feed" /\ E!Init
     /\ pool = 0 /\ chain = 0 /\ disk = 0 /\ writer = 0 /\ calls = 0 /\ canon = 0 /\ events = 0
     /\ prev = 0 /\ stored = 0 /\ known = 0 /\ cascaded = 0 /\ shead = 0 /\ update = 0
     /\ later = 0 /\ work = 0 /\ moves = 0 /\ feed = 0 /\ chan = 0 /\ mux = 0 /\ proc = 0
     /\ col = 0 /\ in = 0 /\ req = 0 /\ pend = 0 /\ out = 0 /\ resp = 0 /\ dist = 0 /\ asked = 0
     /\ open = 0 /\ allocs = 0 /\ drain = 0 /\ alive = 0 /\ ret = 0 /\ quit = 0 /\ kill = 0
     /\ err = 0 /\ reader = 0 /\ found = 0 /\ logs = 0 /\ queue = 0 /\ index = 0 /\ event = 0
     /\ targets = 0 /\ client = 0 /\ item = 0 /\ uninst = 0 /\ mu = 0 /\ filters = 0
     /\ expired = 0 /\ scan = 0 /\ victim = 0 /\ store = 0 /\ polled = 0 /\ due = 0
     /\ canStart = 0 /\ shouldStart = 0 /\ mining = 0 /\ call = 0 /\ looping = 0 /\ syncs = 0
     /\ syncing = 0 /\ wmining = 0 /\ heads = 0 /\ seen = 0 /\ isMining = 0 /\ stop = 0
     /\ workCh = 0 /\ loops = 0 /\ quitOp = 0 /\ search = 0 /\ recv = 0 /\ mustCommit = 0
     /\ pushes = 0 /\ tree = 0 /\ head = 0 /\ sides = 0 /\ possible = 0 /\ next = 0
     /\ checked = 0 /\ inputs = 0 /\ busy = 0 /\ errors = 0 /\ ready = 0 /\ done = 0
     /\ results = 0 /\ read = 0 /\ abort = 0 /\ now = 0 /\ pos = 0 /\ best = 0
  \/ /\ focus = "filters" /\ L!Init
     /\ pool = 0 /\ chain = 0 /\ disk = 0 /\ writer = 0 /\ calls = 0 /\ canon = 0 /\ events = 0
     /\ prev = 0 /\ stored = 0 /\ known = 0 /\ cascaded = 0 /\ shead = 0 /\ update = 0
     /\ later = 0 /\ work = 0 /\ moves = 0 /\ feed = 0 /\ chan = 0 /\ mux = 0 /\ proc = 0
     /\ col = 0 /\ in = 0 /\ req = 0 /\ pend = 0 /\ out = 0 /\ resp = 0 /\ dist = 0 /\ asked = 0
     /\ open = 0 /\ allocs = 0 /\ drain = 0 /\ alive = 0 /\ ret = 0 /\ quit = 0 /\ kill = 0
     /\ err = 0 /\ reader = 0 /\ found = 0 /\ logs = 0 /\ lock = 0 /\ inbox = 0 /\ sendCases = 0
     /\ active = 0 /\ send = 0 /\ buf = 0 /\ got = 0 /\ life = 0 /\ tracked = 0 /\ scope = 0
     /\ values = 0 /\ canStart = 0 /\ shouldStart = 0 /\ mining = 0 /\ call = 0 /\ looping = 0
     /\ syncs = 0 /\ syncing = 0 /\ wmining = 0 /\ heads = 0 /\ seen = 0 /\ isMining = 0
     /\ stop = 0 /\ workCh = 0 /\ loops = 0 /\ quitOp = 0 /\ search = 0 /\ recv = 0
     /\ mustCommit = 0 /\ pushes = 0 /\ tree = 0 /\ head = 0 /\ sides = 0 /\ possible = 0
     /\ next = 0 /\ checked = 0 /\ inputs = 0 /\ busy = 0 /\ errors = 0 /\ ready = 0 /\ done = 0
     /\ results = 0 /\ read = 0 /\ abort = 0 /\ now = 0 /\ pos = 0 /\ best = 0
  \/ /\ focus = "miner" /\ M!Init
     /\ pool = 0 /\ chain = 0 /\ disk = 0 /\ writer = 0 /\ canon = 0 /\ events = 0 /\ prev = 0
     /\ stored = 0 /\ known = 0 /\ cascaded = 0 /\ shead = 0 /\ update = 0 /\ later = 0
     /\ work = 0 /\ moves = 0 /\ feed = 0 /\ chan = 0 /\ mux = 0 /\ proc = 0 /\ col = 0
     /\ in = 0 /\ req = 0 /\ pend = 0 /\ out = 0 /\ resp = 0 /\ dist = 0 /\ asked = 0
     /\ open = 0 /\ allocs = 0 /\ drain = 0 /\ alive = 0 /\ ret = 0 /\ quit = 0 /\ kill = 0
     /\ err = 0 /\ reader = 0 /\ found = 0 /\ logs = 0 /\ lock = 0 /\ inbox = 0 /\ sendCases = 0
     /\ active = 0 /\ send = 0 /\ buf = 0 /\ got = 0 /\ life = 0 /\ tracked = 0 /\ scope = 0
     /\ values = 0 /\ queue = 0 /\ index = 0 /\ event = 0 /\ targets = 0 /\ client = 0
     /\ item = 0 /\ uninst = 0 /\ mu = 0 /\ filters = 0 /\ expired = 0 /\ scan = 0 /\ victim = 0
     /\ store = 0 /\ polled = 0 /\ due = 0 /\ tree = 0 /\ head = 0 /\ sides = 0 /\ possible = 0
     /\ next = 0 /\ checked = 0 /\ inputs = 0 /\ busy = 0 /\ errors = 0 /\ ready = 0 /\ done = 0
     /\ results = 0 /\ read = 0 /\ abort = 0 /\ now = 0 /\ pos = 0 /\ best = 0
  \/ /\ focus = "uncles" /\ U!Init
     /\ pool = 0 /\ chain = 0 /\ disk = 0 /\ writer = 0 /\ calls = 0 /\ canon = 0 /\ events = 0
     /\ prev = 0 /\ stored = 0 /\ known = 0 /\ cascaded = 0 /\ shead = 0 /\ update = 0
     /\ later = 0 /\ moves = 0 /\ feed = 0 /\ chan = 0 /\ mux = 0 /\ proc = 0 /\ col = 0
     /\ in = 0 /\ req = 0 /\ pend = 0 /\ out = 0 /\ resp = 0 /\ dist = 0 /\ asked = 0
     /\ open = 0 /\ allocs = 0 /\ drain = 0 /\ alive = 0 /\ ret = 0 /\ quit = 0 /\ kill = 0
     /\ err = 0 /\ reader = 0 /\ found = 0 /\ logs = 0 /\ lock = 0 /\ inbox = 0 /\ sendCases = 0
     /\ active = 0 /\ send = 0 /\ buf = 0 /\ got = 0 /\ life = 0 /\ tracked = 0 /\ scope = 0
     /\ values = 0 /\ queue = 0 /\ index = 0 /\ event = 0 /\ targets = 0 /\ client = 0
     /\ item = 0 /\ uninst = 0 /\ mu = 0 /\ filters = 0 /\ expired = 0 /\ scan = 0 /\ victim = 0
     /\ store = 0 /\ polled = 0 /\ due = 0 /\ canStart = 0 /\ shouldStart = 0 /\ mining = 0
     /\ call = 0 /\ looping = 0 /\ syncs = 0 /\ syncing = 0 /\ wmining = 0 /\ heads = 0
     /\ seen = 0 /\ isMining = 0 /\ stop = 0 /\ workCh = 0 /\ loops = 0 /\ quitOp = 0
     /\ search = 0 /\ recv = 0 /\ mustCommit = 0 /\ pushes = 0 /\ next = 0 /\ checked = 0
     /\ inputs = 0 /\ busy = 0 /\ errors = 0 /\ ready = 0 /\ done = 0 /\ results = 0 /\ read = 0
     /\ abort = 0 /\ now = 0 /\ pos = 0 /\ best = 0
  \/ /\ focus = "headers" /\ V!Init
     /\ pool = 0 /\ chain = 0 /\ disk = 0 /\ writer = 0 /\ calls = 0 /\ canon = 0 /\ events = 0
     /\ prev = 0 /\ stored = 0 /\ known = 0 /\ cascaded = 0 /\ shead = 0 /\ update = 0
     /\ later = 0 /\ work = 0 /\ moves = 0 /\ feed = 0 /\ chan = 0 /\ mux = 0 /\ proc = 0
     /\ col = 0 /\ in = 0 /\ req = 0 /\ pend = 0 /\ resp = 0 /\ dist = 0 /\ asked = 0
     /\ open = 0 /\ allocs = 0 /\ drain = 0 /\ alive = 0 /\ ret = 0 /\ quit = 0 /\ kill = 0
     /\ err = 0 /\ reader = 0 /\ found = 0 /\ logs = 0 /\ lock = 0 /\ inbox = 0 /\ sendCases = 0
     /\ active = 0 /\ send = 0 /\ buf = 0 /\ got = 0 /\ life = 0 /\ tracked = 0 /\ scope = 0
     /\ values = 0 /\ queue = 0 /\ index = 0 /\ event = 0 /\ targets = 0 /\ client = 0
     /\ item = 0 /\ uninst = 0 /\ mu = 0 /\ filters = 0 /\ expired = 0 /\ scan = 0 /\ victim = 0
     /\ store = 0 /\ polled = 0 /\ due = 0 /\ canStart = 0 /\ shouldStart = 0 /\ mining = 0
     /\ call = 0 /\ looping = 0 /\ syncs = 0 /\ syncing = 0 /\ wmining = 0 /\ heads = 0
     /\ seen = 0 /\ isMining = 0 /\ stop = 0 /\ workCh = 0 /\ loops = 0 /\ quitOp = 0
     /\ search = 0 /\ recv = 0 /\ mustCommit = 0 /\ pushes = 0 /\ tree = 0 /\ head = 0
     /\ sides = 0 /\ possible = 0 /\ now = 0 /\ pos = 0 /\ best = 0
  \/ /\ focus = "seal" /\ C!Init
     /\ pool = 0 /\ disk = 0 /\ writer = 0 /\ calls = 0 /\ canon = 0 /\ events = 0 /\ prev = 0
     /\ stored = 0 /\ known = 0 /\ cascaded = 0 /\ shead = 0 /\ update = 0 /\ later = 0
     /\ work = 0 /\ moves = 0 /\ feed = 0 /\ chan = 0 /\ mux = 0 /\ proc = 0 /\ col = 0
     /\ in = 0 /\ req = 0 /\ pend = 0 /\ out = 0 /\ resp = 0 /\ dist = 0 /\ asked = 0
     /\ open = 0 /\ allocs = 0 /\ drain = 0 /\ alive = 0 /\ ret = 0 /\ quit = 0 /\ kill = 0
     /\ err = 0 /\ reader = 0 /\ logs = 0 /\ lock = 0 /\ inbox = 0 /\ sendCases = 0
     /\ active = 0 /\ send = 0 /\ buf = 0 /\ got = 0 /\ life = 0 /\ tracked = 0 /\ scope = 0
     /\ values = 0 /\ queue = 0 /\ index = 0 /\ event = 0 /\ targets = 0 /\ client = 0
     /\ item = 0 /\ uninst = 0 /\ mu = 0 /\ filters = 0 /\ expired = 0 /\ scan = 0 /\ victim = 0
     /\ store = 0 /\ polled = 0 /\ due = 0 /\ canStart = 0 /\ shouldStart = 0 /\ mining = 0
     /\ call = 0 /\ looping = 0 /\ syncs = 0 /\ syncing = 0 /\ wmining = 0 /\ heads = 0
     /\ seen = 0 /\ isMining = 0 /\ stop = 0 /\ workCh = 0 /\ loops = 0 /\ quitOp = 0
     /\ recv = 0 /\ mustCommit = 0 /\ pushes = 0 /\ tree = 0 /\ head = 0 /\ sides = 0
     /\ possible = 0 /\ next = 0 /\ checked = 0 /\ inputs = 0 /\ busy = 0 /\ errors = 0
     /\ ready = 0 /\ done = 0 /\ results = 0 /\ read = 0 /\ abort = 0

MCNext ==
  \/ /\ focus = "pool" /\ P!Next
     /\ UNCHANGED <<focus, canon, events, prev, stored, known, cascaded, shead, update, later,
       work, moves, feed, chan, mux, proc, col, in, req, pend, out, resp, dist, asked, open,
       allocs, drain, alive, ret, quit, kill, err, reader, found, logs, lock, inbox, sendCases,
       active, send, buf, got, life, tracked, scope, values, queue, index, event, targets,
       client, item, uninst, mu, filters, expired, scan, victim, store, polled, due, canStart,
       shouldStart, mining, call, looping, syncs, syncing, wmining, heads, seen, isMining, stop,
       workCh, loops, quitOp, search, recv, mustCommit, pushes, tree, head, sides, possible,
       next, checked, inputs, busy, errors, ready, done, results, read, abort, now, pos, best>>
  \/ /\ focus = "indexer" /\ I!Next
     /\ UNCHANGED <<focus, pool, chain, disk, writer, calls, feed, chan, mux, proc, col, in,
       req, pend, out, resp, dist, asked, open, allocs, drain, alive, ret, quit, kill, err,
       reader, found, logs, lock, inbox, sendCases, active, send, buf, got, life, tracked,
       scope, values, queue, index, event, targets, client, item, uninst, mu, filters, expired,
       scan, victim, store, polled, due, canStart, shouldStart, mining, call, looping, syncs,
       syncing, wmining, heads, seen, isMining, stop, workCh, loops, quitOp, search, recv,
       mustCommit, pushes, tree, head, sides, possible, next, checked, inputs, busy, errors,
       ready, done, results, read, abort, now, pos, best>>
  \/ /\ focus = "bloom" /\ Next
     /\ UNCHANGED <<focus, pool, chain, disk, writer, calls, canon, events, prev, stored, known,
       cascaded, shead, update, later, work, moves, lock, inbox, sendCases, active, send, buf,
       got, life, tracked, scope, values, queue, index, event, targets, client, item, uninst,
       mu, filters, expired, scan, victim, store, polled, due, canStart, shouldStart, mining,
       call, looping, syncs, syncing, wmining, heads, seen, isMining, stop, workCh, loops,
       quitOp, search, recv, mustCommit, pushes, tree, head, sides, possible, next, checked,
       inputs, busy, errors, ready, done, results, read, abort, now, pos, best>>
  \/ /\ focus = "feed" /\ E!Next
     /\ UNCHANGED <<focus, pool, chain, disk, writer, calls, canon, events, prev, stored, known,
       cascaded, shead, update, later, work, moves, feed, chan, mux, proc, col, in, req, pend,
       out, resp, dist, asked, open, allocs, drain, alive, ret, quit, kill, err, reader, found,
       logs, queue, index, event, targets, client, item, uninst, mu, filters, expired, scan,
       victim, store, polled, due, canStart, shouldStart, mining, call, looping, syncs, syncing,
       wmining, heads, seen, isMining, stop, workCh, loops, quitOp, search, recv, mustCommit,
       pushes, tree, head, sides, possible, next, checked, inputs, busy, errors, ready, done,
       results, read, abort, now, pos, best>>
  \/ /\ focus = "filters" /\ L!Next
     /\ UNCHANGED <<focus, pool, chain, disk, writer, calls, canon, events, prev, stored, known,
       cascaded, shead, update, later, work, moves, feed, chan, mux, proc, col, in, req, pend,
       out, resp, dist, asked, open, allocs, drain, alive, ret, quit, kill, err, reader, found,
       logs, lock, inbox, sendCases, active, send, buf, got, life, tracked, scope, values,
       canStart, shouldStart, mining, call, looping, syncs, syncing, wmining, heads, seen,
       isMining, stop, workCh, loops, quitOp, search, recv, mustCommit, pushes, tree, head,
       sides, possible, next, checked, inputs, busy, errors, ready, done, results, read, abort,
       now, pos, best>>
  \/ /\ focus = "miner" /\ M!Next
     /\ UNCHANGED <<focus, pool, chain, disk, writer, canon, events, prev, stored, known,
       cascaded, shead, update, later, work, moves, feed, chan, mux, proc, col, in, req, pend,
       out, resp, dist, asked, open, allocs, drain, alive, ret, quit, kill, err, reader, found,
       logs, lock, inbox, sendCases, active, send, buf, got, life, tracked, scope, values,
       queue, index, event, targets, client, item, uninst, mu, filters, expired, scan, victim,
       store, polled, due, tree, head, sides, possible, next, checked, inputs, busy, errors,
       ready, done, results, read, abort, now, pos, best>>
  \/ /\ focus = "uncles" /\ U!Next
     /\ UNCHANGED <<focus, pool, chain, disk, writer, calls, canon, events, prev, stored, known,
       cascaded, shead, update, later, moves, feed, chan, mux, proc, col, in, req, pend, out,
       resp, dist, asked, open, allocs, drain, alive, ret, quit, kill, err, reader, found, logs,
       lock, inbox, sendCases, active, send, buf, got, life, tracked, scope, values, queue,
       index, event, targets, client, item, uninst, mu, filters, expired, scan, victim, store,
       polled, due, canStart, shouldStart, mining, call, looping, syncs, syncing, wmining,
       heads, seen, isMining, stop, workCh, loops, quitOp, search, recv, mustCommit, pushes,
       next, checked, inputs, busy, errors, ready, done, results, read, abort, now, pos, best>>
  \/ /\ focus = "headers" /\ V!Next
     /\ UNCHANGED <<focus, pool, chain, disk, writer, calls, canon, events, prev, stored, known,
       cascaded, shead, update, later, work, moves, feed, chan, mux, proc, col, in, req, pend,
       resp, dist, asked, open, allocs, drain, alive, ret, quit, kill, err, reader, found, logs,
       lock, inbox, sendCases, active, send, buf, got, life, tracked, scope, values, queue,
       index, event, targets, client, item, uninst, mu, filters, expired, scan, victim, store,
       polled, due, canStart, shouldStart, mining, call, looping, syncs, syncing, wmining,
       heads, seen, isMining, stop, workCh, loops, quitOp, search, recv, mustCommit, pushes,
       tree, head, sides, possible, now, pos, best>>
  \/ /\ focus = "seal" /\ C!Next
     /\ UNCHANGED <<focus, pool, disk, writer, calls, canon, events, prev, stored, known,
       cascaded, shead, update, later, work, moves, feed, chan, mux, proc, col, in, req, pend,
       out, resp, dist, asked, open, allocs, drain, alive, ret, quit, kill, err, reader, logs,
       lock, inbox, sendCases, active, send, buf, got, life, tracked, scope, values, queue,
       index, event, targets, client, item, uninst, mu, filters, expired, scan, victim, store,
       polled, due, canStart, shouldStart, mining, call, looping, syncs, syncing, wmining,
       heads, seen, isMining, stop, workCh, loops, quitOp, recv, mustCommit, pushes, tree, head,
       sides, possible, next, checked, inputs, busy, errors, ready, done, results, read, abort>>

mcVars == <<focus, pool, chain, disk, writer, calls, canon, events, prev, stored, known,
  cascaded, shead, update, later, work, moves, feed, chan, mux, proc, col, in, req, pend, out,
  resp, dist, asked, open, allocs, drain, alive, ret, quit, kill, err, reader, found, logs,
  lock, inbox, sendCases, active, send, buf, got, life, tracked, scope, values, queue, index,
  event, targets, client, item, uninst, mu, filters, expired, scan, victim, store, polled, due,
  canStart, shouldStart, mining, call, looping, syncs, syncing, wmining, heads, seen, isMining,
  stop, workCh, loops, quitOp, search, recv, mustCommit, pushes, tree, head, sides, possible,
  next, checked, inputs, busy, errors, ready, done, results, read, abort, now, pos, best>>
MCSpec == MCInit /\ [][MCNext]_mcVars
-----------------------------------------------------------------------------

(* A local transaction that is journalled stays so while it is pooled.      *)
JournalKept == [][focus = "pool" => P!JournalKept]_mcVars


(* A log search finds each match once and in order, loses no section and    *)
(* never waits for itself.                                                  *)
SearchSound == focus = "bloom" => BloomSound

(* A subscriber sees what is sent while it is subscribed, in order, and     *)
(* none leaves stuck. A filter misses no event between its installation and *)
(* its removal.                                                             *)
EventsSound ==
  /\ focus = "feed" => E!FeedSound
  /\ focus = "filters" => L!FilterSound

(* A filter that is removed is gone before long: neither its removal nor    *)
(* the event loop waits for the other.                                      *)
UninstallReturns == focus = "filters" => L!UnsubscribeReturns


=============================================================================
