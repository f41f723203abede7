------------------------ MODULE WaybackMosaicsProofs ------------------------
(***************************************************************************)
(* What WaybackMosaics promises for any requests, areas and lists: a request*)
(* reads the mosaic it was given (Kept: the lock keeps the downloads apart, *)
(* and nothing replaces a mosaic that has the tiles another asks for), and *)
(* a COG that is noted is whole and has its own mask (Sound: while one      *)
(* request at a time makes the COG and the mask of an area, the temporary   *)
(* files are its own).                                                     *)
(***************************************************************************)
EXTENDS WaybackMosaics, TLAPS

\* What is so at the places of a request, whatever the others did.
PlacedAt(x) ==
  /\ x.at = "idle" => x.area = Nobody
  /\ x.area = Nobody => x.at \in {"idle", "lock", "look", "download"} \cup Ended
  /\ x.canonical => x.area # Nobody /\ cog[x.area] # Nobody /\ mask[x.area] # Nobody
  /\ x.canonical => x.at \in {"image", "mask", "done"}
  /\ x.at \in {"clean", "note", "verify"} \cup MaskMaking => cog[x.area] # Nobody

Placed  == \A r \in Requests : PlacedAt(req[r])
TypeInv == TypeOK /\ Placed

\* Given a mosaic, or with nothing more to do: what it downloaded is noted.
Served(x) == x.got # Nobody \/ x.at \in Ended

LockedAt(r) ==
  /\ req[r].at \in {"look", "download"} => lock = r
  /\ req[r].at = "download" => mosaic = Nobody

Promised(r) ==
  /\ ~req[r].canonical /\ req[r].got \notin failing \cup {Nobody} /\ ~compacted
  /\ \A q \in Requests : HasLooked(q) => req[q].list \in {AnyList, tiles[req[r].got]}

KeptFor(r) ==
  /\ mosaic = req[r].got /\ rasters
  /\ {req[r].image, req[r].mask} \subseteq {Nobody, req[r].got}

GotAt(x) ==
  /\ x.at \in {"idle", "validate"} \cup Fetching => x.got = Nobody
  /\ x.at \in Promoting => x.got # Nobody
  /\ x.at \notin {"mask", "done"} => x.image = Nobody
  /\ x.at # "done" => x.mask = Nobody

Kept ==
  /\ mosaic # Nobody => Served(req[mosaic])
  /\ \A r \in Requests : LockedAt(r) /\ GotAt(req[r])
  /\ \A r \in Requests : ~req[r].canonical /\ req[r].got # Nobody => Served(req[req[r].got])
  /\ \A r \in Requests : Promised(r) => KeptFor(r)

CogAt(x, r) ==
  /\ mask[x.area] = Nobody \/ x.at = "maskcheck"
  /\ x.at \in {"write", "replace"} => temp[x.area] = r
  /\ x.at = "replace" => r \in written
  /\ x.at \in {"clean", "note"} => cog[x.area] \in written
  /\ x.at \in {"verify"} \cup MaskMaking => x.area \in noted
  /\ x.at \in {"maskwrite", "maskmove"} => maskTemp[x.area] = r /\ maskOf[r] = content[cog[x.area]]
  /\ x.at = "maskmove" => r \in maskWhole

AreaSound(a) ==
  /\ \A r, q \in Making(a) : r = q
  /\ \A r \in Making(a) : CogAt(req[r], r)
  /\ a \in noted => cog[a] \in written
  /\ a \notin noted => mask[a] = Nobody
  /\ mask[a] # Nobody => mask[a] \in maskWhole /\ maskOf[mask[a]] = content[cog[a]]

\* No request has written its COG before that place.
Unwritten(x) == x.at \in {"open", "write"} \/ (x.got = Nobody /\ x.at \notin Ended \cup {"image", "mask"})

\* A mask lies beside the COG of the area of its request.
HomedAt(a, x) == x # Nobody => req[x].area = a \/ req[x].at \in Ended

Sound ==
  /\ \A r \in Requests : Unwritten(req[r]) => r \notin written
  /\ \A a \in Areas : HomedAt(a, mask[a]) /\ HomedAt(a, maskTemp[a])
  /\ \A a \in Areas \ met : AreaSound(a)
\* A COG or a mask that is there is never removed.
Grows ==
  \A a \in Areas : (cog[a] # Nobody => cog'[a] # Nobody) /\ (mask[a] # Nobody => mask'[a] # Nobody)

-----------------------------------------------------------------------------
(* A step of one request is a change of its record.                         *)
LEMMA OneRequest ==
  ASSUME TypeInv, NEW r \in Requests, NEW x \in Request, PlacedAt(x)',
         req' = [req EXCEPT ![r] = x], Grows
  PROVE  req' \in [Requests -> Request] /\ Placed'
<1>1. req \in [Requests -> Request]
  BY DEF TypeInv, TypeOK
<1>2. ASSUME NEW q \in Requests, q # r PROVE PlacedAt(req[q])'
  <2>1. req'[q] = req[q] /\ req[q] \in Request /\ PlacedAt(req[q])
    BY <1>1, <1>2 DEF TypeInv, Placed
  <2>2. req[q].area # Nobody => req[q].area \in Areas
    BY <2>1 DEF Request
  <2>3. req[q].area = Nobody => req[q].at \notin {"clean", "note", "verify"} \cup MaskMaking
    BY <2>1 DEF PlacedAt, Ended, MaskMaking
  <2>. QED
    BY <2>1, <2>2, <2>3 DEF PlacedAt, Grows
<1>3. req'[r] = x
  BY <1>1
<1>. QED
  BY <1>1, <1>2, <1>3 DEF Placed

LEMMA PresentRequest ==
  ASSUME TypeInv, NEW r \in Requests
  PROVE  /\ req[r] \in Request /\ PlacedAt(req[r])
         /\ req[r].at \notin {"idle"} \cup Fetching \cup Ended => req[r].area \in Areas
  BY DEF TypeInv, TypeOK, Placed, PlacedAt, Request, Fetching

LEMMA IdleRequest ==
  /\ Idle \in Request /\ Idle.at = "idle" /\ Idle.area = Nobody /\ ~Idle.canonical
  /\ Idle.got = Nobody /\ Idle.image = Nobody /\ Idle.mask = Nobody
  BY DEF Idle, Request, Places, Owner

(* What a record is after a step of each kind. *)
OnlyMoves(r) == \A q \in Requests : q # r => req'[q] = req[q]

LEMMA GoMoves ==
  ASSUME TypeInv, NEW r \in Requests, NEW at, Go(r, at)
  PROVE  /\ OnlyMoves(r) /\ req'[r].at = at /\ req'[r].canonical = req[r].canonical
         /\ req'[r].area = req[r].area /\ req'[r].list = req[r].list
         /\ req'[r].got = req[r].got /\ req'[r].image = req[r].image /\ req'[r].mask = req[r].mask
<1>1. req \in [Requests -> Request] /\ req[r] \in Request
  BY DEF TypeInv, TypeOK
<1>. QED
  BY <1>1 DEF Go, OnlyMoves, Request

LEMMA EndMoves ==
  ASSUME TypeInv, NEW r \in Requests, NEW at, End(r, at)
  PROVE  /\ OnlyMoves(r) /\ req'[r].at = at /\ req'[r].area = Nobody /\ req'[r].list = req[r].list
         /\ ~req'[r].canonical
         /\ req'[r].got = Nobody /\ req'[r].image = Nobody /\ req'[r].mask = Nobody
<1>1. req \in [Requests -> Request]
  BY DEF TypeInv, TypeOK
<1>. QED
  BY <1>1 DEF End, OnlyMoves, Idle

LEMMA GivenMoves ==
  ASSUME TypeInv, NEW r \in Requests, NEW owner, Given(r, owner), req[r].area # Nobody
  PROVE  /\ OnlyMoves(r) /\ req'[r].at = "open" /\ req'[r].canonical = req[r].canonical
         /\ req'[r].area = req[r].area /\ req'[r].list = req[r].list
         /\ req'[r].got = owner /\ req'[r].image = req[r].image /\ req'[r].mask = req[r].mask
<1>1. req \in [Requests -> Request] /\ req[r] \in Request
  BY DEF TypeInv, TypeOK
<1>. QED
  BY <1>1 DEF Given, OnlyMoves, Request

LEMMA AcceptMoves ==
  ASSUME TypeInv, NEW r \in Requests, Accept(r)
  PROVE  /\ OnlyMoves(r) /\ req'[r].at = "image"
         /\ req'[r].area = req[r].area /\ req'[r].list = req[r].list
         /\ req'[r].image = req[r].image /\ req'[r].mask = req[r].mask
         /\ IF req[r].got = Nobody THEN req'[r].canonical
            ELSE req'[r].got = req[r].got /\ req'[r].canonical = req[r].canonical
<1>1. req \in [Requests -> Request] /\ req[r] \in Request
  BY DEF TypeInv, TypeOK
<1>2. CASE req[r].got = Nobody
  BY <1>1, <1>2 DEF Accept, OnlyMoves, Request
<1>3. CASE req[r].got # Nobody
  BY <1>3, GoMoves DEF Accept
<1>. QED
  BY <1>2, <1>3

(* Each kind of step leaves a record with its types, at a place it may be. *)
LEMMA Goes ==
  ASSUME TypeInv, NEW r \in Requests, NEW at \in Places \ {"idle"}, Go(r, at), Grows,
         ~req[r].canonical, req[r].area \in Areas \/ at \in Fetching,
         at \in {"clean", "note", "verify"} \cup MaskMaking => cog'[req[r].area] # Nobody
  PROVE  req' \in [Requests -> Request] /\ Placed'
<1>0. [req[r] EXCEPT !.at = at] \in Request
  BY PresentRequest DEF Request
<1> PICK x \in Request : x = [req[r] EXCEPT !.at = at]
  BY <1>0
<1>1. x.at = at /\ x.area = req[r].area /\ ~x.canonical
  BY PresentRequest DEF Request
<1>2. req' = [req EXCEPT ![r] = x]
  BY DEF Go
<1>3. PlacedAt(x)'
  BY <1>1, NamesAssumption DEF PlacedAt, Nobody, Fetching
<1>. QED
  BY <1>2, <1>3, OneRequest

LEMMA Ends ==
  ASSUME TypeInv, NEW r \in Requests, NEW at \in Ended, End(r, at), Grows
  PROVE  req' \in [Requests -> Request] /\ Placed'
<1>0. req[r].list \in Lists \cup {AnyList} /\ at \in Places
  BY PresentRequest DEF Ended, Places, Request
<1>. HIDE DEF Idle
<1>1. [Idle EXCEPT !.at = at, !.list = req[r].list] \in Request
  BY <1>0, IdleRequest DEF Request
<1> PICK x \in Request : x = [Idle EXCEPT !.at = at, !.list = req[r].list]
  BY <1>1
<1>3. x.at = at /\ x.area = Nobody /\ ~x.canonical
  BY <1>0, IdleRequest DEF Request
<1>2. req' = [req EXCEPT ![r] = x]
  BY DEF End
<1>4. PlacedAt(x)'
  BY <1>3 DEF PlacedAt, Ended, MaskMaking
<1>. QED
  BY <1>2, <1>4, OneRequest

LEMMA Givens ==
  ASSUME TypeInv, NEW r \in Requests, NEW owner \in Requests, Given(r, owner), Grows,
         ~req[r].canonical
  PROVE  req' \in [Requests -> Request] /\ Placed'
<1>1. CASE req[r].area = Nobody
  BY <1>1, Ends DEF Given, Ended
<1>2. CASE req[r].area # Nobody
  <2>0. [req[r] EXCEPT !.at = "open", !.got = owner] \in Request
    BY PresentRequest DEF Request, Places, Owner
  <2> PICK x \in Request : x = [req[r] EXCEPT !.at = "open", !.got = owner]
    BY <2>0
  <2>1. x.at = "open" /\ x.area = req[r].area /\ ~x.canonical
    BY PresentRequest DEF Request
  <2>2. req' = [req EXCEPT ![r] = x]
    BY <1>2 DEF Given
  <2>3. PlacedAt(x)'
    BY <1>2, <2>1 DEF PlacedAt, MaskMaking
  <2>. QED
    BY <2>2, <2>3, OneRequest
<1>. QED
  BY <1>1, <1>2

LEMMA Accepts ==
  ASSUME TypeInv, NEW r \in Requests, req[r].area \in Areas, Accept(r), ~req[r].canonical,
         cog[req[r].area] # Nobody, mask[req[r].area] # Nobody, UNCHANGED <<cog, mask>>
  PROVE  req' \in [Requests -> Request] /\ Placed' /\ met' \in SUBSET Areas
<1>g. Grows /\ met' \in SUBSET Areas
  BY DEF Grows, Accept, TypeInv, TypeOK
<1>1. CASE req[r].got # Nobody
  BY <1>1, <1>g, Goes DEF Accept, Places, MaskMaking
<1>2. CASE req[r].got = Nobody
  <2> PICK c \in Owner : c = content[cog[req[r].area]]
    BY DEF TypeInv, TypeOK, Owner
  <2>0. [req[r] EXCEPT !.at = "image", !.canonical = TRUE, !.got = c] \in Request
    BY PresentRequest DEF Request, Places
  <2> PICK x \in Request : x = [req[r] EXCEPT !.at = "image", !.canonical = TRUE, !.got = c]
    BY <2>0
  <2>1. x.at = "image" /\ x.area = req[r].area /\ x.canonical
    BY PresentRequest DEF Request
  <2>2. req' = [req EXCEPT ![r] = x]
    <3>1. req \in [Requests -> Request]
      BY DEF TypeInv, TypeOK
    <3>. QED
      BY <1>2, <3>1 DEF Accept, Request
  <2>3. PlacedAt(x)'
    BY <2>1, NamesAssumption DEF PlacedAt, MaskMaking, Nobody
  <2>. QED
    BY <1>g, <2>2, <2>3, OneRequest
<1>. QED
  BY <1>1, <1>2

LEMMA Rejects ==
  ASSUME TypeInv, NEW r \in Requests, req[r].area \in Areas, Reject(r), ~req[r].canonical, Grows
  PROVE  req' \in [Requests -> Request] /\ Placed' /\ met' \in SUBSET Areas
<1>1. met' \in SUBSET Areas
  BY DEF Reject, Meet, TypeInv, TypeOK
<1>2. \E at \in {"lock", "image"} : Go(r, at)
  BY DEF Reject
<1>. QED
  BY <1>1, <1>2, Goes DEF Places, Fetching, MaskMaking

LEMMA TypeInit == Init => TypeInv
  BY IdleRequest DEF Init, TypeInv, TypeOK, Placed, PlacedAt, Owner, Ended, MaskMaking

(* The record of a request or a prefetch that starts. *)
LEMMA StartRecord ==
  ASSUME NEW a \in Areas, NEW list \in Lists \cup {AnyList}
  PROVE  /\ \E x \in Request :
              /\ x = [Idle EXCEPT !.at = "validate", !.area = a, !.list = list]
              /\ x.at = "validate" /\ x.area = a /\ ~x.canonical
              /\ x.got = Nobody /\ x.image = Nobody /\ x.mask = Nobody
<1>. HIDE DEF Idle
<1>1. [Idle EXCEPT !.at = "validate", !.area = a, !.list = list] \in Request
  BY IdleRequest DEF Request, Places
<1> PICK x \in Request : x = [Idle EXCEPT !.at = "validate", !.area = a, !.list = list]
  BY <1>1
<1>2. /\ x.at = "validate" /\ x.area = a /\ ~x.canonical
      /\ x.got = Nobody /\ x.image = Nobody /\ x.mask = Nobody
  BY IdleRequest DEF Request
<1>. QED
  BY <1>2

LEMMA PrefetchRecord ==
  ASSUME NEW list \in Lists \cup {AnyList}
  PROVE  /\ \E x \in Request :
              /\ x = [Idle EXCEPT !.at = "lock", !.list = list]
              /\ x.at = "lock" /\ x.area = Nobody /\ ~x.canonical
              /\ x.got = Nobody /\ x.image = Nobody /\ x.mask = Nobody
<1>. HIDE DEF Idle
<1>1. [Idle EXCEPT !.at = "lock", !.list = list] \in Request
  BY IdleRequest DEF Request, Places
<1> PICK x \in Request : x = [Idle EXCEPT !.at = "lock", !.list = list]
  BY <1>1
<1>2. /\ x.at = "lock" /\ x.area = Nobody /\ ~x.canonical
      /\ x.got = Nobody /\ x.image = Nobody /\ x.mask = Nobody
  BY IdleRequest DEF Request
<1>. QED
  BY <1>2

LEMMA TypeStep == TypeInv /\ [Next]_vars => TypeInv'
<1> SUFFICES ASSUME TypeInv, [Next]_vars PROVE TypeInv'
  OBVIOUS
<1> USE DEF shared, files, cogs, masks, cleanup
<1>g. UNCHANGED <<cog, mask>> => Grows
  BY DEF Grows
<1>1. ASSUME NEW r \in Requests, NEW a \in Areas, NEW list \in Lists, Start(r, a, list) PROVE TypeInv'
  <2> PICK x \in Request : /\ x = [Idle EXCEPT !.at = "validate", !.area = a, !.list = list]
                          /\ x.at = "validate" /\ x.area = a /\ ~x.canonical
    BY StartRecord
  <2>1. PlacedAt(x)' /\ req' = [req EXCEPT ![r] = x]
    BY <1>1, NamesAssumption DEF Start, PlacedAt, Nobody, MaskMaking
  <2>2. req' \in [Requests -> Request] /\ Placed'
    BY <1>1, <1>g, <2>1, OneRequest DEF Start
  <2>. QED
    BY <1>1, <2>2 DEF Start, TypeInv, TypeOK
<1>1a. ASSUME NEW r \in Requests, NEW list \in Lists \cup {AnyList}, Prefetch(r, list) PROVE TypeInv'
  <2> PICK x \in Request : /\ x = [Idle EXCEPT !.at = "lock", !.list = list]
                          /\ x.at = "lock" /\ x.area = Nobody /\ ~x.canonical
    BY PrefetchRecord
  <2>1. PlacedAt(x)' /\ req' = [req EXCEPT ![r] = x]
    BY <1>1a DEF Prefetch, PlacedAt, MaskMaking
  <2>2. req' \in [Requests -> Request] /\ Placed'
    BY <1>1a, <1>g, <2>1, OneRequest DEF Prefetch
  <2>. QED
    BY <1>1a, <2>2 DEF Prefetch, TypeInv, TypeOK
<1>2. ASSUME NEW r \in Requests, Validate(r) PROVE TypeInv'
  <2> PICK a \in Areas : a = req[r].area
    BY <1>2, PresentRequest DEF Validate, Fetching, Ended
  <2>0. req[r].at \in {"validate", "verify"} /\ ~req[r].canonical /\ UNCHANGED cog
    BY <1>2, PresentRequest DEF Validate, PlacedAt
  <2>1. CASE MayBeValid(a) /\ mask[a] # Nobody /\ Accept(r) /\ UNCHANGED masks
    <3>1. req' \in [Requests -> Request] /\ Placed' /\ met' \in SUBSET Areas
      BY <2>0, <2>1, Accepts DEF MayBeValid
    <3>. QED
      BY <1>2, <2>1, <3>1 DEF Validate, TypeInv, TypeOK
  <2>2. CASE MayBeValid(a) /\ MakeMask(r)
    <3>1. req' \in [Requests -> Request] /\ Placed'
      BY <1>g, <2>0, <2>2, Goes DEF MakeMask, MayBeValid, Places
    <3>2. met' \in SUBSET Areas
      BY <2>2 DEF MakeMask, Meet, TypeInv, TypeOK
    <3>3. content[cog[a]] \in Owner
      BY <2>2 DEF MayBeValid, TypeInv, TypeOK, Owner
    <3>4. maskTemp' \in [Areas -> Owner] /\ maskOf' \in [Requests -> Owner]
          /\ maskWhole' \in SUBSET Requests /\ UNCHANGED mask
      BY <2>2, <3>3 DEF MakeMask, TypeInv, TypeOK, Owner
    <3>. QED
      BY <1>2, <3>1, <3>2, <3>4 DEF Validate, TypeInv, TypeOK
  <2>3. CASE Reject(r) /\ UNCHANGED masks
    <3>1. req' \in [Requests -> Request] /\ Placed' /\ met' \in SUBSET Areas
      BY <1>g, <2>0, <2>3, Rejects
    <3>. QED
      BY <1>2, <2>3, <3>1 DEF Validate, TypeInv, TypeOK
  <2>. QED
    BY <1>2, <2>1, <2>2, <2>3 DEF Validate
<1>3. ASSUME NEW r \in Requests, Lock(r) PROVE TypeInv'
  <2>1. req' \in [Requests -> Request] /\ Placed'
    BY <1>3, <1>g, Goes, PresentRequest DEF Lock, PlacedAt, Places, Fetching, MaskMaking
  <2>. QED
    BY <1>3, <2>1 DEF Lock, TypeInv, TypeOK, Owner
<1>4. ASSUME NEW r \in Requests, LockTimeout(r) PROVE TypeInv'
  <2>1. req' \in [Requests -> Request] /\ Placed'
    BY <1>4, <1>g, Ends DEF LockTimeout, Fail, Ended
  <2>. QED
    BY <1>4, <2>1 DEF LockTimeout, TypeInv, TypeOK
<1>6. ASSUME NEW r \in Requests, Look(r) PROVE TypeInv'
  <2>0. req[r].at = "look" /\ UNCHANGED <<cog, mask>> /\ ~req[r].canonical
    BY <1>6, PresentRequest DEF Look, PlacedAt
  <2>1. CASE mosaic \in Requests /\ Given(r, mosaic) /\ UNCHANGED <<mosaic, rasters>> /\ lock' = Nobody
    <3>1. req' \in [Requests -> Request] /\ Placed'
      BY <1>g, <2>0, <2>1, Givens
    <3>. QED
      BY <1>6, <2>1, <3>1 DEF Look, TypeInv, TypeOK, Owner
  <2>2. CASE Go(r, "download") /\ mosaic' = Nobody /\ rasters' = FALSE /\ UNCHANGED lock
    <3>1. req' \in [Requests -> Request] /\ Placed'
      BY <1>g, <2>0, <2>2, Goes DEF Places, Fetching, MaskMaking
    <3>. QED
      BY <1>6, <2>2, <3>1 DEF Look, TypeInv, TypeOK, Owner
  <2>3. mosaic # Nobody => mosaic \in Requests
    BY DEF TypeInv, TypeOK, Owner
  <2>. QED
    BY <1>6, <2>1, <2>2, <2>3 DEF Look
<1>7. ASSUME NEW r \in Requests, Download(r) PROVE TypeInv'
  <2>0. req[r].at = "download" /\ UNCHANGED <<cog, mask>> /\ ~req[r].canonical
    BY <1>7, PresentRequest DEF Download, PlacedAt
  <2>1. CASE Fail(r) /\ UNCHANGED <<mosaic, rasters, failing, tiles>>
    <3>1. req' \in [Requests -> Request] /\ Placed'
      BY <1>g, <2>0, <2>1, Ends DEF Fail, Ended
    <3>. QED
      BY <1>7, <2>1, <3>1 DEF Download, TypeInv, TypeOK, Owner
  <2>2. ASSUME NEW list \in Lists, tiles' = [tiles EXCEPT ![r] = list], Given(r, r), mosaic' = r,
               rasters' = TRUE, failing' \in {failing, failing \cup {r}}
        PROVE  TypeInv'
    <3>1. req' \in [Requests -> Request] /\ Placed'
      BY <1>g, <2>0, <2>2, Givens
    <3>2. tiles' \in [Requests -> Lists \cup {AnyList}] /\ failing' \in SUBSET Requests
      BY <2>2 DEF TypeInv, TypeOK
    <3>. QED
      BY <1>7, <2>2, <3>1, <3>2 DEF Download, TypeInv, TypeOK, Owner
  <2>. QED
    BY <1>7, <2>1, <2>2 DEF Download
<1>8. ASSUME NEW r \in Requests, OpenCog(r) PROVE TypeInv'
  <2> PICK a \in Areas : a = req[r].area
    BY <1>8, PresentRequest DEF OpenCog, Fetching, Ended
  <2>0. req[r].at = "open" /\ ~req[r].canonical /\ UNCHANGED <<cog, mask>>
    BY <1>8, PresentRequest DEF OpenCog, PlacedAt
  <2>1. \E at \in {"image", "note", "write"} : Go(r, at) /\ (at = "note" => cog[a] # Nobody)
    BY <1>8, NamesAssumption DEF OpenCog, TypeInv, TypeOK, Nobody
  <2>2. req' \in [Requests -> Request] /\ Placed'
    BY <1>g, <2>0, <2>1, Goes DEF Places, MaskMaking
  <2>3. temp' \in [Areas -> Owner] /\ content' \in [Requests -> Owner]
    BY <1>8 DEF OpenCog, TypeInv, TypeOK, Owner
  <2>. QED
    BY <1>8, <2>2, <2>3 DEF OpenCog, TypeInv, TypeOK
<1>9. ASSUME NEW r \in Requests, WriteCog(r) PROVE TypeInv'
  <2>0. /\ req[r].at = "write" /\ ~req[r].canonical /\ UNCHANGED <<cog, mask>>
        /\ req[r].area \in Areas /\ \E at \in {"replace", "image"} : Go(r, at)
    BY <1>9, PresentRequest DEF WriteCog, PlacedAt, Fetching, Ended
  <2>1. req' \in [Requests -> Request] /\ Placed'
    BY <1>g, <2>0, Goes DEF Places, MaskMaking
  <2>2. temp' \in [Areas -> Owner] /\ written' \in SUBSET Requests
    BY <1>9 DEF WriteCog, TypeInv, TypeOK, Owner
  <2>. QED
    BY <1>9, <2>1, <2>2 DEF WriteCog, TypeInv, TypeOK
<1>10. ASSUME NEW r \in Requests, ReplaceCog(r) PROVE TypeInv'
  <2> PICK a \in Areas : a = req[r].area
    BY <1>10, PresentRequest DEF ReplaceCog, Fetching, Ended
  <2>0. req[r].at = "replace" /\ ~req[r].canonical
    BY <1>10, PresentRequest DEF ReplaceCog, PlacedAt
  <2>1. temp' \in [Areas -> Owner] /\ cog' \in [Areas -> Owner] /\ Grows
    BY <1>10 DEF ReplaceCog, TypeInv, TypeOK, Owner, Grows
  <2>2. \E at \in {"image", "clean"} : Go(r, at) /\ (at = "clean" => cog'[a] # Nobody)
    BY <1>10 DEF ReplaceCog, TypeInv, TypeOK
  <2>3. req' \in [Requests -> Request] /\ Placed'
    BY <2>0, <2>1, <2>2, Goes DEF Places, MaskMaking
  <2>. QED
    BY <1>10, <2>1, <2>3 DEF ReplaceCog, TypeInv, TypeOK
<1>11. ASSUME NEW r \in Requests, CleanTemp(r) \/ NoteCog(r) PROVE TypeInv'
  <2>0. /\ req[r].at \in {"clean", "note"} /\ req[r].area \in Areas /\ cog[req[r].area] # Nobody
        /\ ~req[r].canonical /\ UNCHANGED <<cog, mask>> /\ \E at \in {"note", "verify"} : Go(r, at)
    BY <1>11, PresentRequest DEF CleanTemp, NoteCog, PlacedAt, Fetching, Ended
  <2>1. req' \in [Requests -> Request] /\ Placed'
    BY <1>g, <2>0, Goes DEF Places
  <2>. QED
    BY <1>11, <2>0, <2>1 DEF CleanTemp, NoteCog, TypeInv, TypeOK, Owner
<1>12. ASSUME NEW r \in Requests, WriteMask(r) PROVE TypeInv'
  <2>0. /\ req[r].at = "maskwrite" /\ req[r].area \in Areas /\ cog[req[r].area] # Nobody
        /\ ~req[r].canonical /\ UNCHANGED <<cog, mask>>
    BY <1>12, PresentRequest DEF WriteMask, PlacedAt, Fetching, Ended, MaskMaking
  <2>1. req' \in [Requests -> Request] /\ Placed' /\ met' \in SUBSET Areas
    <3>1. CASE Go(r, "maskmove") /\ UNCHANGED met
      <4>1. met' \in SUBSET Areas
        BY <3>1 DEF TypeInv, TypeOK
      <4>. QED
        BY <1>g, <2>0, <3>1, <4>1, Goes DEF Places
    <3>2. CASE Reject(r)
      BY <1>g, <2>0, <3>2, Rejects
    <3>. QED
      BY <1>12, <3>1, <3>2 DEF WriteMask
  <2>2. maskTemp' \in [Areas -> Owner] /\ maskWhole' \in SUBSET Requests
    BY <1>12 DEF WriteMask, TypeInv, TypeOK, Owner
  <2>. QED
    BY <1>12, <2>1, <2>2 DEF WriteMask, TypeInv, TypeOK
<1>12a. ASSUME NEW r \in Requests, MoveMask(r) PROVE TypeInv'
  <2>0. /\ req[r].at = "maskmove" /\ req[r].area \in Areas /\ cog[req[r].area] # Nobody
        /\ ~req[r].canonical /\ UNCHANGED cog
    BY <1>12a, PresentRequest DEF MoveMask, PlacedAt, Fetching, Ended, MaskMaking
  <2>1. maskTemp' \in [Areas -> Owner] /\ mask' \in [Areas -> Owner] /\ Grows
    BY <1>12a, <2>0 DEF MoveMask, TypeInv, TypeOK, Owner, Grows
  <2>2. req' \in [Requests -> Request] /\ Placed' /\ met' \in SUBSET Areas
    <3>1. CASE Go(r, "maskcheck") /\ UNCHANGED met
      <4>1. met' \in SUBSET Areas
        BY <3>1 DEF TypeInv, TypeOK
      <4>. QED
        BY <2>0, <2>1, <3>1, <4>1, Goes DEF Places
    <3>2. CASE Reject(r)
      BY <2>0, <2>1, <3>2, Rejects
    <3>. QED
      BY <1>12a, <3>1, <3>2 DEF MoveMask
  <2>. QED
    BY <1>12a, <2>1, <2>2 DEF MoveMask, TypeInv, TypeOK
<1>12b. ASSUME NEW r \in Requests, CheckMask(r) PROVE TypeInv'
  <2>0. /\ req[r].at = "maskcheck" /\ req[r].area \in Areas /\ cog[req[r].area] # Nobody
        /\ ~req[r].canonical /\ UNCHANGED <<cog, mask>>
    BY <1>12b, PresentRequest DEF CheckMask, PlacedAt, Fetching, Ended, MaskMaking
  <2>1. req' \in [Requests -> Request] /\ Placed' /\ met' \in SUBSET Areas
    <3>1. CASE mask[req[r].area] # Nobody /\ Accept(r)
      BY <2>0, <3>1, Accepts
    <3>2. CASE Reject(r)
      BY <1>g, <2>0, <3>2, Rejects
    <3>. QED
      BY <1>12b, <3>1, <3>2 DEF CheckMask
  <2>2. maskTemp' \in [Areas -> Owner]
    BY <1>12b DEF CheckMask, TypeInv, TypeOK, Owner
  <2>. QED
    BY <1>12b, <2>1, <2>2 DEF CheckMask, TypeInv, TypeOK
<1>13. ASSUME NEW r \in Requests, ReadImage(r) PROVE TypeInv'
  <2>0. /\ req[r].at = "image" /\ req[r].area \in Areas /\ req[r] \in Request /\ PlacedAt(req[r])
        /\ UNCHANGED <<cog, mask>>
    BY <1>13, PresentRequest DEF ReadImage, Fetching, Ended
  <2>1. CASE Fail(r)
    <3>1. req' \in [Requests -> Request] /\ Placed'
      BY <1>g, <2>0, <2>1, Ends DEF Fail, Ended
    <3>. QED
      BY <1>13, <3>1 DEF ReadImage, TypeInv, TypeOK
  <2>2. ASSUME NEW image \in Owner, req' = [req EXCEPT ![r].at = "mask", ![r].image = image]
        PROVE  TypeInv'
    <3>1. [req[r] EXCEPT !.at = "mask", !.image = image] \in Request
      BY <2>0 DEF Request, Places
    <3> PICK x \in Request : x = [req[r] EXCEPT !.at = "mask", !.image = image]
      BY <3>1
    <3>2. x.at = "mask" /\ x.area = req[r].area /\ x.canonical = req[r].canonical
      BY <2>0 DEF Request
    <3>3. PlacedAt(x)'
      BY <2>0, <3>2, NamesAssumption DEF PlacedAt, MaskMaking, Nobody
    <3>4. req' = [req EXCEPT ![r] = x]
      BY <2>2
    <3>5. req' \in [Requests -> Request] /\ Placed'
      BY <1>g, <2>0, <3>3, <3>4, OneRequest
    <3>. QED
      BY <1>13, <3>5 DEF ReadImage, TypeInv, TypeOK
  <2>3. req[r].canonical => content[cog[req[r].area]] \in Owner
    BY <2>0 DEF PlacedAt, TypeInv, TypeOK, Owner
  <2>4. mosaic \in Owner
    BY DEF TypeInv, TypeOK
  <2>. QED
    BY <1>13, <2>1, <2>2, <2>3, <2>4 DEF ReadImage
<1>14. ASSUME NEW r \in Requests, ReadMask(r) PROVE TypeInv'
  <2>0. /\ req[r].at = "mask" /\ req[r].area \in Areas /\ req[r] \in Request /\ PlacedAt(req[r])
        /\ UNCHANGED <<cog, mask>>
    BY <1>14, PresentRequest DEF ReadMask, Fetching, Ended
  <2>1. CASE Fail(r)
    <3>1. req' \in [Requests -> Request] /\ Placed'
      BY <1>g, <2>0, <2>1, Ends DEF Fail, Ended
    <3>. QED
      BY <1>14, <3>1 DEF ReadMask, TypeInv, TypeOK
  <2>2. ASSUME NEW m \in Owner, req' = [req EXCEPT ![r].at = "done", ![r].mask = m]
        PROVE  TypeInv'
    <3>1. [req[r] EXCEPT !.at = "done", !.mask = m] \in Request
      BY <2>0 DEF Request, Places
    <3> PICK x \in Request : x = [req[r] EXCEPT !.at = "done", !.mask = m]
      BY <3>1
    <3>2. x.at = "done" /\ x.area = req[r].area /\ x.canonical = req[r].canonical
      BY <2>0 DEF Request
    <3>3. PlacedAt(x)'
      BY <2>0, <3>2, NamesAssumption DEF PlacedAt, MaskMaking, Nobody
    <3>4. req' = [req EXCEPT ![r] = x]
      BY <2>2
    <3>5. req' \in [Requests -> Request] /\ Placed'
      BY <1>g, <2>0, <3>3, <3>4, OneRequest
    <3>. QED
      BY <1>14, <3>5 DEF ReadMask, TypeInv, TypeOK
  <2>3. mosaic \in Owner /\ (req[r].canonical => maskOf[mask[req[r].area]] \in Owner)
    BY <2>0 DEF PlacedAt, TypeInv, TypeOK, Owner
  <2>. QED
    BY <1>14, <2>1, <2>2, <2>3 DEF ReadMask
<1>15. ASSUME NEW r \in Requests, Stop(r) PROVE TypeInv'
  <2>1. req' \in [Requests -> Request] /\ Placed'
    BY <1>15, <1>g, Ends DEF Stop, Ended
  <2>. QED
    BY <1>15, <2>1 DEF Stop, TypeInv, TypeOK
<1>16. CASE UNCHANGED <<req, cog, mask>>
  <2>1. Placed'
    BY <1>16 DEF TypeInv, Placed, PlacedAt
  <2>2. ASSUME NEW r \in Requests, DeleteRequest(r) PROVE TypeInv'
    BY <1>16, <2>1, <2>2 DEF DeleteRequest, TypeInv, TypeOK
  <2>3. CASE ScanReferences \/ RemoveRasters
    BY <1>16, <2>1, <2>3 DEF ScanReferences, RemoveRasters, TypeInv, TypeOK
  <2>4. CASE UNCHANGED vars
    BY <2>1, <2>4 DEF vars, TypeInv, TypeOK
  <2>. QED
    BY <1>1, <1>1a, <1>2, <1>3, <1>4, <1>6, <1>7, <1>8, <1>9, <1>10, <1>11, <1>12, <1>12a, <1>12b,
       <1>13, <1>14, <1>15, <2>2, <2>3, <2>4 DEF Next, Step
<1>. QED
  BY <1>1, <1>1a, <1>2, <1>3, <1>4, <1>6, <1>7, <1>8, <1>9, <1>10, <1>11, <1>12, <1>12a, <1>12b,
     <1>13, <1>14, <1>15, <1>16 DEF Next, Step, DeleteRequest, ScanReferences, RemoveRasters, vars

(* The variables keep to their ranges; no COG or mask is looked for where none is. *)
THEOREM MosaicTypes == Spec => []TypeOK
<1>1. TypeInv /\ [Next]_vars => TypeInv'
  BY TypeStep
<1>2. TypeInv => TypeOK
  BY DEF TypeInv
<1>. QED
  BY <1>1, <1>2, TypeInit, PTL DEF Spec

-----------------------------------------------------------------------------
(* The mosaic: only the holder of the lock removes one and downloads another, *)
(* and it removes none that is complete and has the tiles it asks for.      *)

(* A step that leaves the mosaic alone owes only what its request is given. *)
LEMMA KeptMoves ==
  ASSUME TypeInv, TypeInv', Kept, NEW r \in Requests, OnlyMoves(r),
         UNCHANGED <<mosaic, rasters, failing, tiles, compacted>>,
         \A q \in Requests : q # r /\ lock = q => lock' = q,
         LockedAt(r)', GotAt(req'[r]), Served(req[r]) => Served(req'[r]),
         HasLooked(r) => HasLooked(r)' /\ req'[r].list = req[r].list,
         ~req'[r].canonical /\ req'[r].got # Nobody =>
           \/ req'[r].got = mosaic
           \/ req'[r].got = req[r].got /\ ~req[r].canonical,
         Promised(r)' => KeptFor(r)'
  PROVE  Kept'
<1>0. mosaic \in Owner /\ req \in [Requests -> Request] /\ req' \in [Requests -> Request]
  BY DEF TypeInv, TypeOK
<1>s. \A q \in Requests : Served(req[q]) => Served(req'[q])
  BY DEF OnlyMoves
<1>1. mosaic' # Nobody => Served(req[mosaic])'
  BY <1>0, <1>s DEF Kept, Owner
<1>2. ASSUME NEW q \in Requests PROVE LockedAt(q)' /\ GotAt(req'[q])
  BY <1>2 DEF Kept, LockedAt, OnlyMoves
<1>3. ASSUME NEW q \in Requests PROVE Promised(q)' => KeptFor(q)'
  <2>1. CASE q # r
    <3>1. req'[q] = req[q] /\ \A p \in Requests : HasLooked(p) => HasLooked(p)' /\ req'[p].list = req[p].list
      BY <2>1 DEF OnlyMoves, HasLooked
    <3>2. Promised(q)' => Promised(q)
      BY <3>1 DEF Promised
    <3>. QED
      BY <3>1, <3>2 DEF Kept, KeptFor
  <2>. QED
    BY <2>1
<1>4. ASSUME NEW q \in Requests, ~req'[q].canonical /\ req'[q].got # Nobody
      PROVE  Served(req[req[q].got])'
  <2>1. req'[q].got \in Requests
    BY <1>0, <1>4 DEF Request, Owner
  <2>2. req'[q].got = mosaic \/ (req'[q].got = req[q].got /\ ~req[q].canonical)
    BY <1>4 DEF OnlyMoves
  <2>3. Served(req[req'[q].got])
    BY <1>4, <2>2 DEF Kept
  <2>. QED
    BY <1>s, <2>1, <2>3
<1>. QED
  BY <1>1, <1>2, <1>3, <1>4 DEF Kept

LEMMA KeptInit == Init => Kept
<1> SUFFICES ASSUME Init PROVE Kept
  OBVIOUS
<1>1. \A r \in Requests : req[r].at = "idle" /\ req[r].got = Nobody
                          /\ req[r].image = Nobody /\ req[r].mask = Nobody
  BY IdleRequest DEF Init
<1>2. mosaic = Nobody
  BY DEF Init
<1>. QED
  BY <1>1, <1>2 DEF Kept, LockedAt, GotAt, Promised, Promoting

LEMMA KeptStep == TypeInv /\ Kept /\ [Next]_vars => Kept'
<1> SUFFICES ASSUME TypeInv, Kept, [Next]_vars PROVE Kept'
  OBVIOUS
<1> USE DEF shared, files, cogs, masks, cleanup
<1>0. /\ req \in [Requests -> Request] /\ mosaic \in Owner /\ tiles \in [Requests -> Lists \cup {AnyList}]
      /\ TypeInv'
  BY TypeStep DEF TypeInv, TypeOK
<1>k. \A r \in Requests : /\ LockedAt(r) /\ GotAt(req[r]) /\ (Promised(r) => KeptFor(r))
                         /\ (~req[r].canonical /\ req[r].got # Nobody => Served(req[req[r].got]))
  BY DEF Kept
<1>e. ASSUME NEW r \in Requests, NEW at \in {"done", "failed", "stopped"}, End(r, at),
             UNCHANGED <<mosaic, rasters, failing, tiles, compacted>>, lock' = lock \/ lock = r
      PROVE  Kept'
  <2>1. /\ OnlyMoves(r) /\ req'[r].at = at /\ req'[r].list = req[r].list /\ ~req'[r].canonical
        /\ req'[r].got = Nobody /\ req'[r].image = Nobody /\ req'[r].mask = Nobody
    BY <1>e, EndMoves
  <2>2. ~Promised(r)' /\ LockedAt(r)' /\ GotAt(req'[r]) /\ Served(req'[r]) /\ HasLooked(r)'
    BY <2>1 DEF Promised, LockedAt, GotAt, Served, HasLooked, Ended, Fetching, Promoting
  <2>3. \A q \in Requests : q # r /\ lock = q => lock' = q
    BY <1>e
  <2>. QED
    BY <1>0, <1>e, <2>1, <2>2, <2>3, KeptMoves
\* A request that goes on with what it has.
<1>g. ASSUME NEW r \in Requests, NEW at, Go(r, at), ~req[r].canonical,
             req[r].at \notin {"mask", "done"}, at \notin {"idle", "validate", "download"} \cup Ended,
             at \in {"lock", "look"} => req[r].got = Nobody,
             at \in Promoting => req[r].got # Nobody,
             req[r].at \notin {"download"} \cup Ended,
             UNCHANGED <<mosaic, rasters, failing, tiles, compacted>>,
             IF at = "look" THEN lock = Nobody /\ lock' = r ELSE UNCHANGED lock
      PROVE  Kept'
  <2>1. /\ OnlyMoves(r) /\ req'[r].at = at /\ req'[r].canonical = req[r].canonical
        /\ req'[r].list = req[r].list
        /\ req'[r].got = req[r].got /\ req'[r].image = req[r].image /\ req'[r].mask = req[r].mask
    BY <1>g, GoMoves
  <2>2. GotAt(req'[r]) /\ LockedAt(r)'
    BY <1>g, <1>k, <2>1 DEF GotAt, LockedAt, Fetching
  <2>3. /\ Served(req[r]) => Served(req'[r])
        /\ HasLooked(r) => HasLooked(r)'
    BY <1>g, <2>1 DEF Served, HasLooked
  <2>4. HasLooked(r)' => HasLooked(r)
    BY <1>g, <2>1 DEF HasLooked
  <2>5. \A q \in Requests : HasLooked(q) => HasLooked(q)' /\ req'[q].list = req[q].list
    BY <2>1, <2>3 DEF OnlyMoves, HasLooked
  <2>6. Promised(r)' => Promised(r)
    BY <1>g, <2>1, <2>5 DEF Promised
  <2>7. Promised(r)' => KeptFor(r)'
    BY <1>g, <1>k, <2>1, <2>6 DEF KeptFor
  <2>8. \A q \in Requests : q # r /\ lock = q => lock' = q
    BY <1>g, NamesAssumption DEF Nobody
  <2>. QED
    BY <1>0, <1>g, <2>1, <2>2, <2>3, <2>7, <2>8, KeptMoves
<1>r. ASSUME NEW r \in Requests, Reject(r), req[r].at \in {"validate", "verify"} \cup MaskMaking,
             UNCHANGED <<lock, mosaic, rasters, failing, tiles, compacted>>
      PROVE  Kept'
  <2>1. ~req[r].canonical
    BY <1>r, PresentRequest DEF PlacedAt, MaskMaking
  <2>2. \/ Go(r, "lock") /\ req[r].got = Nobody
        \/ Go(r, "image")
    BY <1>r DEF Reject
  <2>. QED
    BY <1>g, <1>r, <2>1, <2>2 DEF Ended, Promoting, MaskMaking
<1>c. ASSUME NEW r \in Requests, Accept(r), req[r].at \in {"validate", "verify"} \cup MaskMaking,
             UNCHANGED <<lock, mosaic, rasters, failing, tiles, compacted>>
      PROVE  Kept'
  <2>0. ~req[r].canonical
    BY <1>c, PresentRequest DEF PlacedAt, MaskMaking
  <2>1. CASE req[r].got # Nobody
    BY <1>c, <1>g, <2>0, <2>1 DEF Accept, Ended, Promoting, MaskMaking
  <2>2. CASE req[r].got = Nobody
    <3>1. /\ OnlyMoves(r) /\ req'[r].at = "image" /\ req'[r].canonical
          /\ req'[r].image = req[r].image /\ req'[r].mask = req[r].mask
      BY <1>c, <2>2, AcceptMoves
    <3>2. ~HasLooked(r) /\ ~Served(req[r])
      BY <1>c, <2>2 DEF HasLooked, Served, Ended, MaskMaking
    <3>3. GotAt(req'[r]) /\ LockedAt(r)' /\ ~Promised(r)'
      BY <1>c, <1>k, <3>1 DEF GotAt, LockedAt, Promised, Fetching, Promoting, MaskMaking
    <3>. QED
      BY <1>0, <1>c, <3>1, <3>2, <3>3, KeptMoves
  <2>. QED
    BY <2>1, <2>2
<1>s. ASSUME NEW r \in Requests, NEW x \in Request, req[r].at = "idle", req' = [req EXCEPT ![r] = x],
             x.at \in {"validate", "lock"}, ~x.canonical,
             x.got = Nobody /\ x.image = Nobody /\ x.mask = Nobody,
             UNCHANGED <<lock, mosaic, rasters, failing, tiles, compacted>>
      PROVE  Kept'
  <2>1. OnlyMoves(r) /\ req'[r] = x
    BY <1>0, <1>s DEF OnlyMoves
  <2>2. GotAt(req'[r]) /\ LockedAt(r)' /\ ~Promised(r)'
    BY <1>s, <2>1 DEF GotAt, LockedAt, Promised, Promoting
  <2>3. req[r].got = Nobody /\ ~HasLooked(r) /\ ~Served(req[r])
    BY <1>k, <1>s DEF GotAt, HasLooked, Served, Ended
  <2>. QED
    BY <1>0, <1>s, <2>1, <2>2, <2>3, KeptMoves
<1>1. ASSUME NEW r \in Requests, NEW a \in Areas, NEW list \in Lists, Start(r, a, list) PROVE Kept'
  <2> PICK x \in Request : /\ x = [Idle EXCEPT !.at = "validate", !.area = a, !.list = list]
                          /\ x.at = "validate" /\ x.area = a /\ ~x.canonical
    BY StartRecord
  <2>1. req' = [req EXCEPT ![r] = x]
    BY <1>1 DEF Start
  <2>2. x.got = Nobody /\ x.image = Nobody /\ x.mask = Nobody
    BY DEF Idle
  <2>. QED
    BY <1>1, <1>s, <2>1, <2>2 DEF Start
<1>1a. ASSUME NEW r \in Requests, NEW list \in Lists \cup {AnyList}, Prefetch(r, list) PROVE Kept'
  <2> PICK x \in Request : /\ x = [Idle EXCEPT !.at = "lock", !.list = list]
                          /\ x.at = "lock" /\ x.area = Nobody /\ ~x.canonical
                          /\ x.got = Nobody /\ x.image = Nobody /\ x.mask = Nobody
    BY PrefetchRecord
  <2>1. req' = [req EXCEPT ![r] = x]
    BY <1>1a DEF Prefetch
  <2>. QED
    BY <1>1a, <1>s, <2>1 DEF Prefetch
<1>2. ASSUME NEW r \in Requests, Validate(r) PROVE Kept'
  <2>1. CASE Accept(r)
    BY <1>2, <1>c, <2>1 DEF Validate
  <2>2. CASE Reject(r)
    BY <1>2, <1>r, <2>2 DEF Validate
  <2>3. CASE MakeMask(r)
    <3>1. ~req[r].canonical /\ Go(r, "maskwrite")
      BY <1>2, <2>3, PresentRequest DEF Validate, PlacedAt, MakeMask
    <3>. QED
      BY <1>2, <1>g, <3>1 DEF Validate, Ended, Promoting
  <2>. QED
    BY <1>2, <2>1, <2>2, <2>3 DEF Validate
<1>2a. ASSUME NEW r \in Requests, WriteMask(r) \/ MoveMask(r) \/ CheckMask(r) PROVE Kept'
  <2>0. req[r].at \in MaskMaking /\ UNCHANGED <<lock, mosaic, rasters, failing, tiles, compacted>>
    BY <1>2a DEF WriteMask, MoveMask, CheckMask, MaskMaking
  <2>1. CASE Accept(r)
    BY <1>c, <2>0, <2>1
  <2>2. CASE Reject(r)
    BY <1>r, <2>0, <2>2
  <2>3. ASSUME NEW at \in {"maskmove", "maskcheck"}, Go(r, at) PROVE Kept'
    <3>1. ~req[r].canonical
      BY <2>0, PresentRequest DEF PlacedAt, MaskMaking
    <3>. QED
      BY <1>g, <2>0, <2>3, <3>1 DEF Ended, Promoting, MaskMaking
  <2>. QED
    BY <1>2a, <2>1, <2>2, <2>3 DEF WriteMask, MoveMask, CheckMask
<1>3. ASSUME NEW r \in Requests, Lock(r) \/ LockTimeout(r) PROVE Kept'
  <2>0. req[r].at = "lock" /\ ~req[r].canonical /\ req[r].got = Nobody
    BY <1>3, <1>k, PresentRequest DEF Lock, LockTimeout, PlacedAt, GotAt, Fetching
  <2>1. CASE Lock(r)
    BY <1>g, <2>0, <2>1 DEF Lock, Ended, Promoting
  <2>2. CASE LockTimeout(r)
    BY <1>e, <2>2 DEF LockTimeout, Fail
  <2>. QED
    BY <1>3, <2>1, <2>2
<1>4. ASSUME NEW r \in Requests, Look(r) PROVE Kept'
  <2>0. /\ req[r].at = "look" /\ lock = r /\ ~req[r].canonical /\ req[r].got = Nobody
        /\ req[r].image = Nobody /\ req[r].mask = Nobody /\ UNCHANGED <<failing, tiles, compacted>>
    BY <1>4, <1>k, PresentRequest DEF Look, PlacedAt, LockedAt, GotAt, Fetching
  <2>l. ~HasLooked(r) /\ ~Served(req[r])
    BY <2>0 DEF HasLooked, Served, Ended
  <2>1. CASE mosaic # Nobody /\ rasters /\ Matches(r)
    <3>0. Given(r, mosaic) /\ UNCHANGED <<mosaic, rasters>> /\ lock' = Nobody
      BY <1>4, <2>1 DEF Look
    <3>1. CASE req[r].area = Nobody
      BY <1>e, <2>0, <3>0, <3>1 DEF Given
    <3>2. CASE req[r].area # Nobody
      <4>1. /\ OnlyMoves(r) /\ req'[r].at = "open" /\ req'[r].got = mosaic
            /\ req'[r].image = Nobody /\ req'[r].mask = Nobody
        BY <2>0, <3>0, <3>2, GivenMoves
      <4>2. KeptFor(r)' /\ GotAt(req'[r]) /\ LockedAt(r)'
        BY <2>1, <3>0, <4>1 DEF KeptFor, GotAt, LockedAt, Fetching, Promoting
      <4>. QED
        BY <1>0, <2>0, <2>l, <3>0, <4>1, <4>2, KeptMoves
    <3>. QED
      BY <3>1, <3>2
  <2>2. CASE ~(mosaic # Nobody /\ rasters /\ Matches(r))
    <3>1. mosaic' = Nobody /\ Go(r, "download") /\ UNCHANGED lock
      BY <1>4, <2>2 DEF Look
    <3>2. /\ OnlyMoves(r) /\ req'[r].at = "download" /\ req'[r].canonical = req[r].canonical
          /\ req'[r].list = req[r].list /\ req'[r].got = Nobody
          /\ req'[r].image = Nobody /\ req'[r].mask = Nobody
      BY <2>0, <3>1, GoMoves
    <3>3. ASSUME NEW q \in Requests, Promised(q)' PROVE FALSE
      <4>1. q # r /\ req'[q] = req[q]
        BY <3>2, <3>3 DEF Promised, OnlyMoves
      <4>2. \A p \in Requests : HasLooked(p) => HasLooked(p)' /\ req'[p].list = req[p].list
        BY <2>l, <3>2 DEF OnlyMoves, HasLooked
      <4>3. Promised(q)
        BY <2>0, <3>3, <4>1, <4>2 DEF Promised
      <4>4. HasLooked(r)'
        BY <2>0, <3>2 DEF HasLooked
      <4>5. req[r].list \in {AnyList, tiles[req[q].got]}
        BY <2>0, <3>2, <3>3, <4>1, <4>4 DEF Promised
      <4>6. mosaic = req[q].got /\ rasters /\ mosaic \notin failing \cup {Nobody}
        BY <1>k, <4>3 DEF KeptFor, Promised
      <4>. QED
        BY <2>2, <4>5, <4>6 DEF Matches
    <3>4. ASSUME NEW q \in Requests PROVE LockedAt(q)' /\ GotAt(req'[q])
      BY <1>k, <2>0, <3>1, <3>2 DEF LockedAt, GotAt, OnlyMoves, Promoting
    <3>5. ASSUME NEW q \in Requests, ~req'[q].canonical /\ req'[q].got # Nobody
          PROVE  Served(req[req[q].got])'
      <4>1. q # r /\ req'[q] = req[q]
        BY <3>2, <3>5 DEF OnlyMoves
      <4>2. Served(req[req[q].got]) /\ req[q].got \in Requests
        BY <1>0, <1>k, <3>5, <4>1 DEF Request, Owner
      <4>. QED
        BY <2>l, <3>2, <4>1, <4>2 DEF OnlyMoves
    <3>. QED
      BY <3>1, <3>3, <3>4, <3>5 DEF Kept
  <2>. QED
    BY <2>1, <2>2
<1>5. ASSUME NEW r \in Requests, Download(r) PROVE Kept'
  <2>0. /\ req[r].at = "download" /\ lock = r /\ mosaic = Nobody /\ ~req[r].canonical
        /\ req[r].got = Nobody
        /\ req[r].image = Nobody /\ req[r].mask = Nobody /\ UNCHANGED compacted /\ lock' = Nobody
    BY <1>5, <1>k, PresentRequest DEF Download, PlacedAt, LockedAt, GotAt, Fetching
  <2>1. CASE Fail(r) /\ UNCHANGED <<mosaic, rasters, failing, tiles>>
    BY <1>e, <2>0, <2>1 DEF Fail
  <2>2. ASSUME NEW list \in Lists, tiles' = [tiles EXCEPT ![r] = list], Given(r, r), mosaic' = r,
               rasters' = TRUE, failing' \in {failing, failing \cup {r}}
        PROVE  Kept'
    <3>1. /\ OnlyMoves(r) /\ req'[r].list = req[r].list /\ ~req'[r].canonical
          /\ req'[r].image = Nobody /\ req'[r].mask = Nobody
          /\ \/ req'[r].at = "open" /\ req'[r].got = r
             \/ req'[r].at = "done" /\ req'[r].got = Nobody
      BY <2>0, <2>2, GivenMoves, EndMoves DEF Given
    <3>2. HasLooked(r)' /\ Served(req'[r]) /\ ~Served(req[r])
      BY <2>0, <3>1, NamesAssumption DEF HasLooked, Served, Ended, Nobody
    <3>3. ASSUME NEW q \in Requests, Promised(q)' PROVE KeptFor(q)'
      <4>1. CASE q = r
        BY <2>2, <3>1, <3>3, <4>1 DEF KeptFor, Promised
      <4>2. CASE q # r
        <5>1. req'[q] = req[q]
          BY <3>1, <4>2 DEF OnlyMoves
        <5>2. req[q].got # r /\ req[q].got \in Requests
          BY <1>0, <1>k, <3>2, <3>3, <5>1 DEF Promised, Request, Owner
        <5>3. tiles'[req[q].got] = tiles[req[q].got]
          BY <1>0, <2>2, <5>2
        <5>4. \A p \in Requests : HasLooked(p) => HasLooked(p)' /\ req'[p].list = req[p].list
          BY <3>1, <3>2 DEF OnlyMoves, HasLooked
        <5>5. Promised(q)
          BY <2>0, <2>2, <3>3, <5>1, <5>3, <5>4 DEF Promised
        <5>. QED
          BY <1>k, <2>0, <5>5 DEF KeptFor, Promised
      <4>. QED
        BY <4>1, <4>2
    <3>4. ASSUME NEW q \in Requests PROVE LockedAt(q)' /\ GotAt(req'[q])
      <4>1. CASE q = r
        BY <3>1, <4>1, NamesAssumption DEF LockedAt, GotAt, Fetching, Promoting, Nobody
      <4>2. CASE q # r
        BY <1>k, <2>0, <3>1, <4>2 DEF LockedAt, OnlyMoves
      <4>. QED
        BY <4>1, <4>2
    <3>5. ASSUME NEW q \in Requests, ~req'[q].canonical /\ req'[q].got # Nobody
          PROVE  Served(req[req[q].got])'
      <4>1. CASE q = r
        BY <3>1, <3>2, <3>5, <4>1
      <4>2. CASE q # r
        <5>1. req'[q] = req[q]
          BY <3>1, <4>2 DEF OnlyMoves
        <5>2. Served(req[req[q].got]) /\ req[q].got \in Requests
          BY <1>0, <1>k, <3>5, <5>1 DEF Request, Owner
        <5>. QED
          BY <3>1, <3>2, <5>1, <5>2 DEF OnlyMoves
      <4>. QED
        BY <4>1, <4>2
    <3>6. Served(req[mosaic])'
      BY <2>2, <3>2
    <3>. QED
      BY <3>3, <3>4, <3>5, <3>6 DEF Kept
  <2>. QED
    BY <1>5, <2>1, <2>2 DEF Download
<1>6. ASSUME NEW r \in Requests,
             OpenCog(r) \/ WriteCog(r) \/ ReplaceCog(r) \/ CleanTemp(r) \/ NoteCog(r)
      PROVE  Kept'
  <2>0. req[r].at \in Promoting /\ UNCHANGED <<lock, mosaic, rasters, failing, tiles, compacted>>
    BY <1>6 DEF OpenCog, WriteCog, ReplaceCog, CleanTemp, NoteCog, Promoting
  <2>1. ~req[r].canonical /\ req[r].got # Nobody
    BY <1>k, <2>0, PresentRequest DEF PlacedAt, Promoting, GotAt
  <2>2. \E at \in {"write", "replace", "clean", "note", "verify", "image"} : Go(r, at)
    BY <1>6 DEF OpenCog, WriteCog, ReplaceCog, CleanTemp, NoteCog
  <2>3. req[r].at \notin {"mask", "done", "download"} \cup Ended
    BY <2>0 DEF Promoting, Ended
  <2>. QED
    BY <1>g, <2>0, <2>1, <2>2, <2>3 DEF Ended
\* A reader notes whose file it has read.
<1>i. ASSUME NEW r \in Requests, NEW x \in Request, OnlyMoves(r), req'[r] = x,
             req[r].at \in {"image", "mask"},
             x.at \in {"mask", "done"}, x.at = "mask" => x.mask = Nobody,
             x.got = req[r].got, x.list = req[r].list, x.canonical = req[r].canonical,
             x.canonical \/ x.image \in {req[r].image, mosaic},
             x.canonical \/ x.mask \in {req[r].mask, mosaic},
             UNCHANGED <<lock, mosaic, rasters, failing, tiles, compacted>>
      PROVE  Kept'
  <2>1. OnlyMoves(r) /\ req'[r] = x
    BY <1>i
  <2>2. GotAt(req'[r]) /\ LockedAt(r)'
    BY <1>i, <2>1 DEF GotAt, LockedAt, Fetching, Promoting
  <2>3. (Served(req[r]) => Served(req'[r])) /\ (HasLooked(r) => HasLooked(r)')
    BY <1>i, <2>1 DEF Served, HasLooked, Ended
  <2>4. \A p \in Requests : HasLooked(p) => HasLooked(p)' /\ req'[p].list = req[p].list
    BY <1>i, <2>1, <2>3 DEF OnlyMoves, HasLooked
  <2>5. Promised(r)' => Promised(r)
    BY <1>i, <2>1, <2>4 DEF Promised
  <2>6. Promised(r)' => KeptFor(r)'
    BY <1>i, <1>k, <2>1, <2>5 DEF KeptFor, Promised
  <2>7. req'[r].list = req[r].list /\ req'[r].got = req[r].got /\ req'[r].canonical = req[r].canonical
    BY <1>i, <2>1
  <2>. QED
    BY <1>0, <1>i, <2>1, <2>2, <2>3, <2>6, <2>7, KeptMoves
<1>7. ASSUME NEW r \in Requests, ReadImage(r) PROVE Kept'
  <2>0. /\ req[r].at = "image" /\ req[r] \in Request /\ req[r].mask = Nobody /\ PlacedAt(req[r])
        /\ UNCHANGED <<lock, mosaic, rasters, failing, tiles, compacted>>
        /\ req[r].area \in Areas
    BY <1>7, <1>k, PresentRequest DEF ReadImage, GotAt, Fetching, Ended
  <2>1. CASE Fail(r)
    BY <1>e, <2>0, <2>1 DEF Fail
  <2>2. ASSUME NEW image \in Owner, req' = [req EXCEPT ![r].at = "mask", ![r].image = image],
               req[r].canonical \/ image = mosaic
        PROVE  Kept'
    <3>1. [req[r] EXCEPT !.at = "mask", !.image = image] \in Request
      BY <2>0 DEF Request, Places
    <3> PICK x \in Request : x = [req[r] EXCEPT !.at = "mask", !.image = image]
      BY <3>1
    <3>2. /\ x.at = "mask" /\ x.canonical = req[r].canonical /\ x.list = req[r].list
          /\ x.image = image /\ x.mask = req[r].mask /\ x.mask = Nobody /\ x.got = req[r].got
      BY <2>0 DEF Request
    <3>3. OnlyMoves(r) /\ req'[r] = x
      BY <1>0, <2>2 DEF OnlyMoves
    <3>. QED
      BY <1>i, <2>0, <2>2, <3>2, <3>3
  <2>3. req[r].canonical => content[cog[req[r].area]] \in Owner
    BY <2>0 DEF PlacedAt, TypeInv, TypeOK, Owner
  <2>. QED
    BY <1>0, <1>7, <2>1, <2>2, <2>3 DEF ReadImage
<1>8. ASSUME NEW r \in Requests, ReadMask(r) PROVE Kept'
  <2>0. /\ req[r].at = "mask" /\ req[r] \in Request /\ PlacedAt(req[r]) /\ req[r].area \in Areas
        /\ UNCHANGED <<lock, mosaic, rasters, failing, tiles, compacted>>
    BY <1>8, PresentRequest DEF ReadMask, Fetching, Ended
  <2>1. CASE Fail(r)
    BY <1>e, <2>0, <2>1 DEF Fail
  <2>2. ASSUME NEW m \in Owner, req' = [req EXCEPT ![r].at = "done", ![r].mask = m],
               req[r].canonical \/ m = mosaic
        PROVE  Kept'
    <3>1. [req[r] EXCEPT !.at = "done", !.mask = m] \in Request
      BY <2>0 DEF Request, Places
    <3> PICK x \in Request : x = [req[r] EXCEPT !.at = "done", !.mask = m]
      BY <3>1
    <3>2. /\ x.at = "done" /\ x.canonical = req[r].canonical /\ x.list = req[r].list
          /\ x.image = req[r].image /\ x.mask = m /\ x.got = req[r].got
      BY <2>0 DEF Request
    <3>3. OnlyMoves(r) /\ req'[r] = x
      BY <1>0, <2>2 DEF OnlyMoves
    <3>. QED
      BY <1>i, <2>0, <2>2, <3>2, <3>3
  <2>3. req[r].canonical => maskOf[mask[req[r].area]] \in Owner
    BY <2>0 DEF PlacedAt, TypeInv, TypeOK, Owner
  <2>. QED
    BY <1>0, <1>8, <2>1, <2>2, <2>3 DEF ReadMask
<1>9. ASSUME NEW r \in Requests, Stop(r) PROVE Kept'
  BY <1>9, <1>e DEF Stop
<1>10. CASE UNCHANGED <<lock, mosaic, rasters, failing, tiles, compacted, req>>
  BY <1>10 DEF Kept, LockedAt, Promised, KeptFor, HasLooked
<1>11. CASE RemoveRasters
  <2>1. UNCHANGED <<lock, mosaic, failing, tiles, req>> /\ ~rasters' /\ compacted' = (compacted \/ rasters)
    BY <1>11 DEF RemoveRasters
  <2>2. ASSUME NEW q \in Requests, Promised(q)' PROVE FALSE
    <3>1. Promised(q) /\ ~rasters
      BY <2>1, <2>2 DEF Promised, HasLooked
    <3>. QED
      BY <1>k, <3>1 DEF KeptFor
  <2>. QED
    BY <2>1, <2>2 DEF Kept, LockedAt
<1>. QED
  BY <1>1, <1>1a, <1>2, <1>2a, <1>3, <1>4, <1>5, <1>6, <1>7, <1>8, <1>9, <1>10, <1>11
     DEF Next, Step, DeleteRequest, ScanReferences, vars

(* A request reads the mosaic it was given, for any number of requests, areas *)
(* and lists of tiles, while no request that looked asked for another list. *)
THEOREM MosaicIsKept == Spec => []MosaicStays
<1>1. TypeInv /\ Kept /\ [Next]_vars => TypeInv' /\ Kept'
  BY TypeStep, KeptStep
<1>2. Kept => MosaicStays
  BY DEF Kept, MosaicStays, Promised, KeptFor
<1>. QED
  BY <1>1, <1>2, TypeInit, KeptInit, PTL DEF Spec

-----------------------------------------------------------------------------
(* A COG that is noted is whole, and so is its mask.                        *)

(* A request that changes nothing but the files of its area owes the soundness *)
(* of that area, and to the one maker it has: itself.                        *)
LEMMA SoundMoves ==
  ASSUME TypeInv, TypeInv', Sound, NEW r \in Requests, NEW a \in Areas, req[r].area = a,
         req[r].at \notin Ended, OnlyMoves(r), met \subseteq met',
         req'[r].area = a \/ req'[r].at \in Ended,
         \A b \in Areas : b # a => /\ temp'[b] = temp[b] /\ cog'[b] = cog[b]
                                 /\ mask'[b] = mask[b] /\ maskTemp'[b] = maskTemp[b]
                                 /\ (b \in noted' <=> b \in noted),
         \A q \in Requests : q # r => /\ content'[q] = content[q] /\ (q \in written' <=> q \in written)
                                    /\ maskOf'[q] = maskOf[q] /\ (q \in maskWhole' <=> q \in maskWhole),
         r \in written => r \in written' /\ content'[r] = content[r],
         Unwritten(req'[r]) => r \notin written',
         mask'[a] \in {mask[a], maskTemp[a]} /\ maskTemp'[a] \in {maskTemp[a], Nobody, r},
         a \notin met' => /\ r \in Making(a) \/ Making(a) = {} \/
                             (r \notin Making(a)' /\ UNCHANGED files)
                          /\ r \in Making(a)' => CogAt(req[r], r)'
                          /\ (a \in noted => cog[a] \in written)'
                          /\ (a \notin noted => mask[a] = Nobody)'
                          /\ (mask[a] # Nobody => mask[a] \in maskWhole /\ maskOf[mask[a]] = content[cog[a]])'
  PROVE  Sound'
<1>0. /\ cog \in [Areas -> Owner] /\ mask \in [Areas -> Owner] /\ maskTemp \in [Areas -> Owner]
      /\ temp \in [Areas -> Owner] /\ a # Nobody
  BY NamesAssumption DEF TypeInv, TypeOK, Nobody
<1>1. ASSUME NEW q \in Requests, Unwritten(req'[q]) PROVE q \notin written'
  BY <1>1 DEF Sound, OnlyMoves
<1>h. ASSUME NEW b \in Areas PROVE HomedAt(b, mask[b])' /\ HomedAt(b, maskTemp[b])'
  <2>1. ASSUME NEW x \in Owner, HomedAt(b, x) PROVE HomedAt(b, x)'
    <3>1. CASE x = r
      BY <2>1, <3>1 DEF HomedAt
    <3>2. CASE x # r
      BY <2>1, <3>2 DEF HomedAt, OnlyMoves, Owner
    <3>. QED
      BY <3>1, <3>2
  <2>2. HomedAt(b, mask[b]) /\ HomedAt(b, maskTemp[b])
    BY DEF Sound
  <2>3. mask[b] \in Owner /\ maskTemp[b] \in Owner
    BY <1>0
  <2>4. CASE b # a
    <3>1. mask'[b] = mask[b] /\ maskTemp'[b] = maskTemp[b]
      BY <2>4
    <3>2. HomedAt(b, mask[b])' /\ HomedAt(b, maskTemp[b])'
      <4>1. /\ mask'[b] # Nobody => req'[mask'[b]].area = b \/ req'[mask'[b]].at \in Ended
            /\ maskTemp'[b] # Nobody => req'[maskTemp'[b]].area = b \/ req'[maskTemp'[b]].at \in Ended
        BY <2>1, <2>2, <2>3, <3>1 DEF HomedAt
      <4>. QED
        BY <4>1 DEF HomedAt
    <3>. QED
      BY <3>2
  <2>5. CASE b = a
    <3>1. \A x \in {mask[a], maskTemp[a], Nobody, r} :
            x # Nobody => req'[x].area = a \/ req'[x].at \in Ended
      BY <2>1, <2>2, <2>3, <2>5 DEF HomedAt
    <3>. QED
      BY <2>5, <3>1 DEF HomedAt
  <2>. QED
    BY <2>4, <2>5
<1>2. ASSUME NEW b \in Areas \ met', b # a PROVE AreaSound(b)'
  <2>1. Making(b)' = Making(b) /\ r \notin Making(b)
    <3>1. r \notin Making(b) /\ r \notin Making(b)'
      BY <1>2 DEF Making, Ended, Fetching, Promoting, MaskMaking
    <3>. QED
      BY <3>1 DEF Making, OnlyMoves
  <2>2. AreaSound(b) /\ HomedAt(b, mask[b])
    BY <1>2 DEF Sound
  <2>h. mask[b] # r
    BY <1>0, <1>2, <2>2, NamesAssumption DEF HomedAt, Nobody
  <2>3. \A q \in Making(b) : CogAt(req[q], q)'
    <3>1. ASSUME NEW q \in Making(b) PROVE CogAt(req[q], q)'
      <4>1. req'[q] = req[q] /\ q # r /\ req[q].area = b /\ CogAt(req[q], q) /\ q \in Requests
        BY <2>1, <2>2 DEF OnlyMoves, Making, AreaSound
      <4>2. cog[b] \in written => cog'[b] \in written' /\ content'[cog'[b]] = content[cog[b]]
        BY <1>2 DEF TypeInv, TypeOK
      <4>3. b \in noted => cog[b] \in written
        BY <2>2 DEF AreaSound
      <4>4. req[q].at \in {"verify"} \cup MaskMaking => b \in noted
        BY <4>1 DEF CogAt
      <4>. QED
        BY <1>2, <4>1, <4>2, <4>3, <4>4 DEF CogAt, MaskMaking
    <3>. QED
      BY <3>1
  <2>4. b \in noted => cog[b] \in Requests /\ cog[b] \in written /\ content'[cog[b]] = content[cog[b]]
    BY <2>2 DEF AreaSound, TypeInv, TypeOK
  <2>5. mask[b] # Nobody => b \in noted
    BY <2>2 DEF AreaSound
  <2>6. (mask[b] # Nobody => mask[b] \in maskWhole /\ maskOf[mask[b]] = content[cog[b]])'
    <3>1. mask'[b] = mask[b] /\ cog'[b] = cog[b]
      BY <1>2
    <3>2. mask[b] # Nobody => mask[b] \in Requests
      BY <1>0, <1>2 DEF Owner
    <3>3. mask[b] # Nobody => mask[b] \in maskWhole' /\ maskOf'[mask[b]] = content'[cog[b]]
      BY <2>2, <2>4, <2>5, <2>h, <3>2 DEF AreaSound
    <3>. QED
      BY <3>1, <3>3
  <2>7. (b \in noted => cog[b] \in written)' /\ (b \notin noted => mask[b] = Nobody)'
    BY <1>2, <2>2, <2>4 DEF AreaSound
  <2>. QED
    BY <2>1, <2>2, <2>3, <2>6, <2>7 DEF AreaSound
<1>3. ASSUME a \notin met' PROVE AreaSound(a)'
  <2>1. AreaSound(a)
    BY <1>3 DEF Sound
  <2>2. CASE r \in Making(a) \/ Making(a) = {}
    <3>1. Making(a)' \subseteq {r}
      BY <2>1, <2>2 DEF AreaSound, Making, OnlyMoves
    <3>2. \A q \in Making(a)' : CogAt(req[q], q)'
      BY <1>3, <3>1
    <3>. QED
      BY <1>3, <3>1, <3>2 DEF AreaSound
  <2>3. CASE r \notin Making(a) /\ r \notin Making(a)' /\ UNCHANGED files
    <3>1. Making(a)' = Making(a) /\ \A q \in Making(a) : req'[q] = req[q]
      BY <2>3 DEF Making, OnlyMoves
    <3>. QED
      BY <2>1, <2>3, <3>1 DEF AreaSound, CogAt, files, cogs, masks
  <2>. QED
    BY <1>3, <2>2, <2>3
<1>. QED
  BY <1>1, <1>2, <1>3, <1>h DEF Sound

(* A step that leaves the files alone and makes no request a maker. *)
LEMMA SoundQuiet ==
  ASSUME TypeInv, Sound, NEW r \in Requests, OnlyMoves(r), UNCHANGED <<files, met>>,
         req[r].area \in Areas => req'[r].area = req[r].area \/ req'[r].at \in Ended,
         req[r].at \notin Ended,
         Unwritten(req'[r]) => Unwritten(req[r]),
         \A b \in Areas : r \in Making(b)' => /\ r \in Making(b) /\ req[r].at \in Fetching
                                             /\ req'[r].at \in Fetching \cup {"open"}
                                             /\ req'[r].area = b
  PROVE  Sound'
<1> USE DEF files, cogs, masks
<1>1. \A q \in Requests : Unwritten(req'[q]) => q \notin written'
  BY DEF Sound, OnlyMoves
<1>2. ASSUME NEW b \in Areas PROVE HomedAt(b, mask[b])' /\ HomedAt(b, maskTemp[b])'
  <2>0. b # Nobody /\ mask[b] \in Owner /\ maskTemp[b] \in Owner
    BY NamesAssumption DEF TypeInv, TypeOK, Nobody
  <2>1. ASSUME NEW x \in Owner, HomedAt(b, x) PROVE x # Nobody => req'[x].area = b \/ req'[x].at \in Ended
    <3>1. CASE x = r
      BY <2>1, <3>1 DEF HomedAt
    <3>2. CASE x # r
      BY <2>1, <3>2 DEF HomedAt, OnlyMoves, Owner
    <3>. QED
      BY <3>1, <3>2
  <2>. QED
    BY <2>0, <2>1 DEF Sound, HomedAt
<1>3. ASSUME NEW b \in Areas \ met' PROVE AreaSound(b)'
  <2>1. AreaSound(b)
    BY <1>3 DEF Sound
  <2>2. Making(b)' \subseteq Making(b)
    BY DEF Making, OnlyMoves
  <2>3. ASSUME NEW q \in Making(b)' PROVE CogAt(req[q], q)'
    <3>0. q \in Making(b) /\ CogAt(req[q], q) /\ req[q].area = b
      BY <2>1, <2>2, <2>3 DEF AreaSound, Making
    <3>1. CASE q # r
      <4>1. req'[q] = req[q]
        BY <2>3, <3>1 DEF OnlyMoves, Making
      <4>. QED
        BY <3>0, <4>1 DEF CogAt
    <3>2. CASE q = r
      <4>1. /\ req[r].at \in Fetching /\ req'[r].at \in Fetching \cup {"open"}
            /\ req'[r].area = b /\ mask[b] = Nobody
        BY <2>3, <3>0, <3>2 DEF CogAt, Fetching
      <4>. QED
        BY <3>2, <4>1 DEF CogAt, Fetching, MaskMaking
    <3>. QED
      BY <3>1, <3>2
  <2>4. \A p, q \in Making(b)' : p = q
    BY <2>1, <2>2 DEF AreaSound
  <2>. QED
    BY <2>1, <2>3, <2>4 DEF AreaSound
<1>. QED
  BY <1>1, <1>2, <1>3 DEF Sound

LEMMA SoundInit == Init => Sound
<1> SUFFICES ASSUME Init PROVE Sound
  OBVIOUS
<1>1. \A a \in Areas : Making(a) = {} /\ mask[a] = Nobody /\ maskTemp[a] = Nobody /\ a \notin noted
  BY IdleRequest DEF Init, Making, Fetching, Promoting, MaskMaking
<1>. QED
  BY <1>1 DEF Sound, AreaSound, HomedAt, Init

LEMMA SoundStep == TypeInv /\ Kept /\ Sound /\ [Next]_vars => Sound'
<1> SUFFICES ASSUME TypeInv, Kept, Sound, [Next]_vars PROVE Sound'
  OBVIOUS
<1> USE DEF shared, files, cogs, masks, cleanup
<1>0. req \in [Requests -> Request] /\ TypeInv'
  BY TypeStep DEF TypeInv, TypeOK
<1>t. /\ temp \in [Areas -> Owner] /\ cog \in [Areas -> Owner] /\ mask \in [Areas -> Owner]
      /\ content \in [Requests -> Owner] /\ maskTemp \in [Areas -> Owner]
      /\ maskOf \in [Requests -> Owner] /\ met \in SUBSET Areas
  BY DEF TypeInv, TypeOK
<1>k. \A r \in Requests : GotAt(req[r]) /\ (Unwritten(req[r]) => r \notin written)
  BY DEF Kept, Sound
<1>a. \A b \in Areas : b \notin met => AreaSound(b)
  BY DEF Sound
\* Reads and the download leave the files alone.
<1>q. ASSUME NEW r \in Requests, OnlyMoves(r), UNCHANGED <<files, met>>, req[r].at \notin Ended,
             req[r].area \in Areas => req'[r].area = req[r].area \/ req'[r].at \in Ended,
             req'[r].at \in Fetching \cup {"open"} => req[r].at \in Fetching /\ req'[r].area = req[r].area,
             req'[r].at \notin {"write", "replace", "clean", "note", "verify"} \cup MaskMaking,
             Unwritten(req'[r]) => Unwritten(req[r])
      PROVE  Sound'
  <2>1. \A b \in Areas : r \in Making(b)' => /\ r \in Making(b) /\ req[r].at \in Fetching
                                             /\ req'[r].at \in Fetching \cup {"open"}
                                             /\ req'[r].area = b
    BY <1>q DEF Making, Promoting
  <2>. QED
    BY <1>q, <2>1, SoundQuiet
<1>s. ASSUME NEW r \in Requests, NEW x \in Request, req[r].at = "idle", req' = [req EXCEPT ![r] = x],
             x.at = "validate" \/ (x.at = "lock" /\ x.area = Nobody), UNCHANGED <<files, met>>
      PROVE  Sound'
  <2>1. OnlyMoves(r) /\ req'[r] = x
    BY <1>0, <1>s DEF OnlyMoves
  <2>2. \A b \in Areas : r \notin Making(b)'
    BY <1>s, <2>1, NamesAssumption DEF Making, Fetching, Promoting, MaskMaking, Nobody
  <2>3. req[r].area \notin Areas
    BY <1>s, PresentRequest, NamesAssumption DEF PlacedAt, Nobody
  <2>4. Unwritten(req[r]) /\ req[r].at \notin Ended
    BY <1>k, <1>s DEF GotAt, Unwritten, Ended
  <2>. QED
    BY <1>s, <2>1, <2>2, <2>3, <2>4, SoundQuiet
<1>1. ASSUME NEW r \in Requests, NEW a \in Areas, NEW list \in Lists, Start(r, a, list) PROVE Sound'
  <2> PICK x \in Request : /\ x = [Idle EXCEPT !.at = "validate", !.area = a, !.list = list]
                          /\ x.at = "validate" /\ x.area = a /\ ~x.canonical
    BY StartRecord
  <2>1. req' = [req EXCEPT ![r] = x]
    BY <1>1 DEF Start
  <2>. QED
    BY <1>1, <1>s, <2>1 DEF Start
<1>1a. ASSUME NEW r \in Requests, NEW list \in Lists \cup {AnyList}, Prefetch(r, list) PROVE Sound'
  <2> PICK x \in Request : /\ x = [Idle EXCEPT !.at = "lock", !.list = list]
                          /\ x.at = "lock" /\ x.area = Nobody /\ ~x.canonical
                          /\ x.got = Nobody /\ x.image = Nobody /\ x.mask = Nobody
    BY PrefetchRecord
  <2>1. req' = [req EXCEPT ![r] = x]
    BY <1>1a DEF Prefetch
  <2>. QED
    BY <1>1a, <1>s, <2>1 DEF Prefetch
\* A rejected COG: the request fetches the mosaic, or goes on without.
<1>r. ASSUME NEW r \in Requests, NEW a \in Areas, a = req[r].area, Reject(r),
             req[r].at \in {"validate", "verify"} \cup MaskMaking
      PROVE  /\ OnlyMoves(r) /\ req'[r].area = a /\ met \subseteq met'
             /\ req'[r].at \in {"lock", "image"} /\ (Unwritten(req'[r]) => r \notin written)
             /\ (a \notin met' => r \in Making(a) \/ Making(a) = {} \/ r \notin Making(a)')
  <2>1. CASE req[r].got = Nobody
    <3>1. OnlyMoves(r) /\ req'[r].at = "lock" /\ req'[r].area = a
      BY <1>r, <2>1, GoMoves DEF Reject
    <3>2. r \notin written
      BY <1>k, <1>r, <2>1 DEF Unwritten, Ended, MaskMaking
    <3>3. met \subseteq met' /\ (a \notin met' => Making(a) \ {r} = {})
      BY <1>r, <1>t, <2>1 DEF Reject, Meet
    <3>. QED
      BY <3>1, <3>2, <3>3
  <2>2. CASE req[r].got # Nobody
    <3>1. OnlyMoves(r) /\ req'[r].at = "image" /\ req'[r].area = a /\ UNCHANGED met
      BY <1>r, <2>2, GoMoves DEF Reject
    <3>2. r \notin Making(a)' /\ ~Unwritten(req'[r])
      BY <3>1 DEF Making, Fetching, Promoting, MaskMaking, Unwritten
    <3>. QED
      BY <3>1, <3>2
  <2>. QED
    BY <2>1, <2>2
<1>2. ASSUME NEW r \in Requests, Validate(r) PROVE Sound'
  <2>0. req[r].at \in {"validate", "verify"} /\ req[r].area \in Areas /\ req[r].at \notin Ended
        /\ UNCHANGED cogs
    BY <1>2, PresentRequest DEF Validate, Fetching, Ended
  <2> PICK a \in Areas : a = req[r].area
    BY <2>0
  <2>a. a \notin met => AreaSound(a)
    BY <1>a
  <2>1. CASE Accept(r) /\ UNCHANGED masks
    <3>1. OnlyMoves(r) /\ req'[r].at = "image" /\ req'[r].area = a /\ UNCHANGED met
      BY <2>1, AcceptMoves DEF Accept
    <3>. QED
      BY <1>q, <2>0, <2>1, <3>1 DEF Fetching, MaskMaking, Unwritten
  <2>2. CASE MayBeValid(a) /\ mask[a] \notin maskWhole /\ MakeMask(r)
    <3>1. OnlyMoves(r) /\ req'[r].at = "maskwrite" /\ req'[r].area = a /\ req'[r].got = req[r].got
      BY <2>2, GoMoves DEF MakeMask
    <3>2. /\ maskTemp'[a] = r /\ maskOf'[r] = content[cog[a]] /\ UNCHANGED mask
          /\ \A b \in Areas : b # a => maskTemp'[b] = maskTemp[b]
          /\ \A q \in Requests : q # r => maskOf'[q] = maskOf[q] /\ (q \in maskWhole' <=> q \in maskWhole)
      BY <1>t, <2>2 DEF MakeMask
    <3>3. met \subseteq met' /\ (a \notin met' => Making(a) \ {r} = {} /\ a \notin met)
      BY <1>t, <2>2 DEF MakeMask, Meet
    <3>4. Unwritten(req'[r]) => r \notin written
      BY <1>k, <2>0, <3>1 DEF Unwritten, Ended
    <3>5. a \notin met' => mask[a] = Nobody /\ a \in noted /\ cog[a] \in written
      BY <2>2, <2>a, <3>3 DEF AreaSound, MayBeValid
    <3>6. a \notin met' => CogAt(req[r], r)'
      BY <2>0, <3>1, <3>2, <3>5 DEF CogAt, MaskMaking
    <3>7. a \notin met' => r \in Making(a) \/ Making(a) = {}
      BY <3>3
    <3>. QED
      BY <1>0, <2>0, <3>1, <3>2, <3>3, <3>4, <3>5, <3>6, <3>7, SoundMoves
  <2>3. CASE (MayBeInvalid(a) \/ mask[a] \notin maskWhole \cup {Nobody}) /\ Reject(r) /\ UNCHANGED masks
    <3>1. /\ OnlyMoves(r) /\ req'[r].area = a /\ met \subseteq met'
          /\ req'[r].at \in {"lock", "image"} /\ (Unwritten(req'[r]) => r \notin written)
          /\ (a \notin met' => r \in Making(a) \/ Making(a) = {} \/ r \notin Making(a)')
      BY <1>r, <2>0, <2>3
    <3>2. a \notin met' => AreaSound(a) /\ a \notin noted /\ mask[a] = Nobody
      BY <2>3, <2>a, <3>1 DEF AreaSound, MayBeInvalid
    <3>3. a \notin met' => (r \in Making(a)' => CogAt(req[r], r)')
      BY <2>3, <3>1, <3>2 DEF CogAt, Making, Fetching, Promoting, MaskMaking
    <3>. QED
      BY <1>0, <2>0, <2>3, <3>1, <3>2, <3>3, SoundMoves
  <2>. QED
    BY <1>2, <2>1, <2>2, <2>3 DEF Validate
\* A maker of the mask.
<1>m. ASSUME NEW r \in Requests, NEW a \in Areas, a = req[r].area, req[r].at \in MaskMaking, a \notin met
      PROVE  /\ r \in Making(a) /\ AreaSound(a) /\ CogAt(req[r], r) /\ a \in noted
             /\ \A q \in Making(a) : q = r
  BY <1>a, <1>m DEF Making, AreaSound, CogAt
<1>3. ASSUME NEW r \in Requests, WriteMask(r) PROVE Sound'
  <2>0. req[r].at = "maskwrite" /\ req[r].area \in Areas /\ req[r].at \notin Ended
        /\ UNCHANGED <<cogs, mask, maskOf>>
    BY <1>3, PresentRequest DEF WriteMask, Fetching, Ended
  <2> PICK a \in Areas : a = req[r].area
    BY <2>0
  <2>m. r \in Making(a) /\ req[r].at \in MaskMaking
    BY <2>0 DEF Making, MaskMaking
  <2>1. CASE maskWhole' = maskWhole \cup {r} /\ Go(r, "maskmove") /\ UNCHANGED <<maskTemp, met>>
    <3>1. OnlyMoves(r) /\ req'[r].at = "maskmove" /\ req'[r].area = a /\ req'[r].got = req[r].got
      BY <2>1, GoMoves
    <3>2. Unwritten(req'[r]) => r \notin written
      BY <1>k, <2>0, <3>1 DEF Unwritten, Ended
    <3>3. a \notin met => AreaSound(a) /\ CogAt(req[r], r) /\ a \in noted /\ mask[a] = Nobody
      BY <1>m, <2>0, <2>m DEF CogAt
    <3>4. a \notin met => CogAt(req[r], r)'
      BY <2>0, <2>1, <3>1, <3>3 DEF CogAt, MaskMaking
    <3>. QED
      BY <1>0, <2>0, <2>1, <2>m, <3>1, <3>2, <3>3, <3>4, SoundMoves DEF AreaSound
  <2>2. CASE maskTemp' = [maskTemp EXCEPT ![a] = Nobody] /\ Reject(r) /\ UNCHANGED maskWhole
    <3>1. /\ OnlyMoves(r) /\ req'[r].area = a /\ met \subseteq met'
          /\ req'[r].at \in {"lock", "image"} /\ (Unwritten(req'[r]) => r \notin written)
      BY <1>r, <2>2, <2>m
    <3>2. maskTemp'[a] = Nobody /\ \A b \in Areas : b # a => maskTemp'[b] = maskTemp[b]
      BY <1>t, <2>2
    <3>3. a \notin met' => AreaSound(a) /\ CogAt(req[r], r) /\ mask[a] = Nobody
      BY <1>m, <2>0, <2>m, <3>1 DEF CogAt
    <3>4. a \notin met' => (r \in Making(a)' => CogAt(req[r], r)')
      BY <2>0, <3>1, <3>3 DEF CogAt, Making, Fetching, Promoting, MaskMaking
    <3>. QED
      BY <1>0, <2>0, <2>2, <2>m, <3>1, <3>2, <3>3, <3>4, SoundMoves DEF AreaSound
  <2>. QED
    BY <1>3, <2>1, <2>2 DEF WriteMask
<1>4. ASSUME NEW r \in Requests, MoveMask(r) PROVE Sound'
  <2>0. req[r].at = "maskmove" /\ req[r].area \in Areas /\ req[r].at \notin Ended
        /\ UNCHANGED <<cogs, maskOf, maskWhole>>
    BY <1>4, PresentRequest DEF MoveMask, Fetching, Ended
  <2> PICK a \in Areas : a = req[r].area
    BY <2>0
  <2>m. r \in Making(a) /\ req[r].at \in MaskMaking
    BY <2>0 DEF Making, MaskMaking
  <2>2. /\ maskTemp'[a] = Nobody /\ mask'[a] \in {mask[a], maskTemp[a]}
        /\ \A b \in Areas : b # a => maskTemp'[b] = maskTemp[b] /\ mask'[b] = mask[b]
    BY <1>4, <1>t, <2>0 DEF MoveMask
  <2>3. a \notin met => /\ AreaSound(a) /\ CogAt(req[r], r) /\ a \in noted
                        /\ maskTemp[a] = r /\ r \in maskWhole /\ maskOf[r] = content[cog[a]]
    BY <1>m, <2>0, <2>m DEF CogAt
  <2>4. r # Nobody
    BY NamesAssumption DEF Nobody
  <2>5. CASE maskTemp[a] = Nobody
    <3>1. /\ OnlyMoves(r) /\ req'[r].area = a /\ met \subseteq met'
          /\ req'[r].at \in {"lock", "image"} /\ (Unwritten(req'[r]) => r \notin written)
      BY <1>4, <1>r, <2>5, <2>m DEF MoveMask
    <3>2. a \in met'
      BY <2>3, <2>4, <2>5, <3>1
    <3>. QED
      BY <1>0, <2>0, <2>2, <2>m, <3>1, <3>2, SoundMoves
  <2>6. CASE maskTemp[a] # Nobody
    <3>1. /\ OnlyMoves(r) /\ req'[r].at = "maskcheck" /\ req'[r].area = a /\ req'[r].got = req[r].got
          /\ UNCHANGED met
      BY <1>4, <2>6, GoMoves DEF MoveMask
    <3>2. mask'[a] = maskTemp[a]
      BY <1>4, <1>t, <2>6 DEF MoveMask
    <3>3. Unwritten(req'[r]) => r \notin written
      BY <1>k, <2>0, <3>1 DEF Unwritten, Ended
    <3>4. a \notin met => CogAt(req[r], r)'
      BY <2>0, <2>3, <3>1 DEF CogAt, MaskMaking
    <3>5. a \notin met => /\ (a \in noted => cog[a] \in written)'
                          /\ (a \notin noted => mask[a] = Nobody)'
                          /\ (mask[a] # Nobody => mask[a] \in maskWhole /\ maskOf[mask[a]] = content[cog[a]])'
      BY <2>0, <2>3, <3>2 DEF AreaSound
    <3>. QED
      BY <1>0, <2>0, <2>2, <2>m, <3>1, <3>3, <3>4, <3>5, SoundMoves
  <2>. QED
    BY <2>5, <2>6
<1>5. ASSUME NEW r \in Requests, CheckMask(r) PROVE Sound'
  <2>0. req[r].at = "maskcheck" /\ req[r].area \in Areas /\ req[r].at \notin Ended
        /\ UNCHANGED <<cogs, mask, maskOf, maskWhole>>
    BY <1>5, PresentRequest DEF CheckMask, Fetching, Ended
  <2> PICK a \in Areas : a = req[r].area
    BY <2>0
  <2>m. r \in Making(a) /\ req[r].at \in MaskMaking
    BY <2>0 DEF Making, MaskMaking
  <2>2. maskTemp'[a] = Nobody /\ \A b \in Areas : b # a => maskTemp'[b] = maskTemp[b]
    BY <1>5, <1>t DEF CheckMask
  <2>3. CASE Accept(r)
    <3>1. OnlyMoves(r) /\ req'[r].at = "image" /\ req'[r].area = a /\ UNCHANGED met
      BY <2>3, AcceptMoves DEF Accept
    <3>2. r \notin Making(a)' /\ ~Unwritten(req'[r])
      BY <3>1 DEF Making, Fetching, Promoting, MaskMaking, Unwritten
    <3>3. a \notin met => AreaSound(a)
      BY <1>a
    <3>. QED
      BY <1>0, <2>0, <2>2, <2>m, <3>1, <3>2, <3>3, SoundMoves DEF AreaSound
  <2>4. CASE mask[a] \notin maskWhole /\ Reject(r)
    <3>1. /\ OnlyMoves(r) /\ req'[r].area = a /\ met \subseteq met'
          /\ req'[r].at \in {"lock", "image"} /\ (Unwritten(req'[r]) => r \notin written)
      BY <1>r, <2>4, <2>m
    <3>3. a \notin met' => AreaSound(a) /\ mask[a] = Nobody
      BY <1>a, <2>4, <3>1 DEF AreaSound
    <3>4. a \notin met' => (r \in Making(a)' => CogAt(req[r], r)')
      BY <2>0, <3>1, <3>3 DEF CogAt, Making, Fetching, Promoting, MaskMaking
    <3>. QED
      BY <1>0, <2>0, <2>2, <2>m, <3>1, <3>3, <3>4, SoundMoves DEF AreaSound
  <2>. QED
    BY <1>5, <2>3, <2>4 DEF CheckMask
<1>6. ASSUME NEW r \in Requests, NEW at \in {"failed", "stopped", "done"}, End(r, at),
             req[r].at \notin Ended, UNCHANGED <<files, met>>
      PROVE  Sound'
  <2>1. OnlyMoves(r) /\ req'[r].at = at
    BY <1>6, EndMoves
  <2>. QED
    BY <1>6, <1>q, <2>1 DEF Fetching, MaskMaking, Ended, Unwritten
<1>7. ASSUME NEW r \in Requests, Lock(r) \/ LockTimeout(r) \/ Look(r) \/ Download(r) PROVE Sound'
  <2>0. /\ req[r].at \in Fetching /\ req[r].at \notin Ended /\ UNCHANGED <<files, met>>
        /\ req[r].got = Nobody /\ Unwritten(req[r])
    BY <1>7, <1>k DEF Lock, LockTimeout, Look, Download, Fetching, Ended, GotAt, Unwritten
  <2>1. ASSUME NEW at \in {"failed", "done"}, End(r, at) PROVE Sound'
    BY <1>6, <2>0, <2>1
  <2>2. ASSUME NEW at \in {"look", "download"}, Go(r, at) PROVE Sound'
    <3>1. OnlyMoves(r) /\ req'[r].at = at /\ req'[r].area = req[r].area /\ req'[r].got = req[r].got
      BY <2>2, GoMoves
    <3>. QED
      BY <1>q, <2>0, <3>1 DEF Fetching, MaskMaking
  <2>3. ASSUME NEW owner, Given(r, owner), req[r].area # Nobody PROVE Sound'
    <3>1. OnlyMoves(r) /\ req'[r].at = "open" /\ req'[r].area = req[r].area
      BY <2>3, GivenMoves
    <3>. QED
      BY <1>q, <2>0, <3>1 DEF Fetching, MaskMaking
  <2>. QED
    BY <1>7, <2>1, <2>2, <2>3 DEF Lock, LockTimeout, Look, Download, Fail, Given
\* A maker of the COG, which keeps the area it has.
<1>p. ASSUME NEW r \in Requests, req[r].at \in Promoting
      PROVE  /\ req[r].area \in Areas /\ req[r].at \notin Ended /\ req[r].got # Nobody
             /\ r \in Making(req[r].area)
             /\ req[r].area \notin met =>
                  /\ AreaSound(req[r].area) /\ CogAt(req[r], r)
                  /\ mask[req[r].area] = Nobody
  <2>1. req[r].area \in Areas /\ req[r].at \notin Ended
    BY <1>p, PresentRequest DEF Promoting, Fetching, Ended
  <2>2. r \in Making(req[r].area) /\ req[r].got # Nobody
    BY <1>k, <1>p DEF Making, GotAt
  <2>3. req[r].at # "maskcheck"
    BY <1>p DEF Promoting
  <2>. QED
    BY <1>a, <2>1, <2>2, <2>3 DEF AreaSound, CogAt
<1>8. ASSUME NEW r \in Requests, OpenCog(r) PROVE Sound'
  <2>0. req[r].at = "open" /\ req[r].at \in Promoting
    BY <1>8 DEF OpenCog, Promoting
  <2> PICK a \in Areas : a = req[r].area
    BY <1>p, <2>0
  <2>1. /\ UNCHANGED <<cog, written, noted, masks, met>> /\ r \in Making(a) /\ req[r].at \notin Ended
        /\ (a \notin met => AreaSound(a) /\ CogAt(req[r], r) /\ mask[a] = Nobody)
        /\ r \notin written /\ req[r].got # Nobody
    BY <1>8, <1>k, <1>p, <2>0 DEF OpenCog, Unwritten
  <2>3. ASSUME NEW at \in {"image", "note"}, Go(r, at), UNCHANGED <<temp, content>>,
               at = "note" => cog[a] \in written
        PROVE  Sound'
    <3>1. OnlyMoves(r) /\ req'[r].at = at /\ req'[r].area = a /\ req'[r].got = req[r].got
      BY <2>3, GoMoves
    <3>2. ~Unwritten(req'[r])
      BY <2>1, <3>1 DEF Unwritten
    <3>3. a \notin met => (r \in Making(a)' => CogAt(req[r], r)')
      BY <2>1, <2>3, <3>1 DEF CogAt, Fetching, Making, Promoting, MaskMaking
    <3>. QED
      BY <1>0, <2>1, <2>3, <3>1, <3>2, <3>3, SoundMoves DEF AreaSound
  <2>4. ASSUME temp' = [temp EXCEPT ![a] = r], content' = [content EXCEPT ![r] = mosaic],
               Go(r, "write")
        PROVE  Sound'
    <3>1. OnlyMoves(r) /\ req'[r].at = "write" /\ req'[r].area = a
      BY <2>4, GoMoves
    <3>2. /\ temp'[a] = r /\ \A b \in Areas : b # a => temp'[b] = temp[b]
          /\ \A q \in Requests : q # r => content'[q] = content[q]
      BY <1>t, <2>4
    <3>3. a \notin met => CogAt(req[r], r)'
      BY <2>1, <3>1, <3>2 DEF CogAt, MaskMaking
    <3>. QED
      BY <1>0, <2>1, <3>1, <3>2, <3>3, SoundMoves DEF AreaSound
  <2>. QED
    BY <1>8, <2>3, <2>4 DEF OpenCog
<1>9. ASSUME NEW r \in Requests, WriteCog(r) PROVE Sound'
  <2>0. req[r].at = "write" /\ req[r].at \in Promoting
    BY <1>9 DEF WriteCog, Promoting
  <2> PICK a \in Areas : a = req[r].area
    BY <1>p, <2>0
  <2>1. /\ UNCHANGED <<cog, content, noted, masks, met>> /\ r \in Making(a) /\ req[r].at \notin Ended
        /\ (a \notin met => AreaSound(a) /\ CogAt(req[r], r) /\ mask[a] = Nobody)
        /\ req[r].got # Nobody
    BY <1>9, <1>p, <2>0 DEF WriteCog
  <2>2. CASE written' = written \cup {r} /\ Go(r, "replace") /\ UNCHANGED temp
    <3>1. OnlyMoves(r) /\ req'[r].at = "replace" /\ req'[r].area = a /\ req'[r].got = req[r].got
      BY <2>2, GoMoves
    <3>2. ~Unwritten(req'[r])
      BY <2>1, <3>1 DEF Unwritten
    <3>3. a \notin met => CogAt(req[r], r)'
      BY <2>0, <2>1, <2>2, <3>1 DEF CogAt, MaskMaking
    <3>. QED
      BY <1>0, <2>1, <2>2, <3>1, <3>2, <3>3, SoundMoves DEF AreaSound
  <2>3. CASE temp' = [temp EXCEPT ![a] = Nobody] /\ Go(r, "image") /\ UNCHANGED written
    <3>1. OnlyMoves(r) /\ req'[r].at = "image" /\ req'[r].area = a
      BY <2>3, GoMoves
    <3>2. ~Unwritten(req'[r]) /\ r \notin Making(a)'
      BY <3>1 DEF Unwritten, Making, Fetching, Promoting, MaskMaking
    <3>3. \A b \in Areas : b # a => temp'[b] = temp[b]
      BY <1>t, <2>3
    <3>. QED
      BY <1>0, <2>1, <2>3, <3>1, <3>2, <3>3, SoundMoves DEF AreaSound
  <2>. QED
    BY <1>9, <2>2, <2>3 DEF WriteCog
<1>10. ASSUME NEW r \in Requests, ReplaceCog(r) PROVE Sound'
  <2>0. req[r].at = "replace" /\ req[r].at \in Promoting
    BY <1>10 DEF ReplaceCog, Promoting
  <2> PICK a \in Areas : a = req[r].area
    BY <1>p, <2>0
  <2>1. /\ UNCHANGED <<content, written, noted, masks, met>> /\ r \in Making(a) /\ req[r].at \notin Ended
        /\ (a \notin met => AreaSound(a) /\ CogAt(req[r], r) /\ mask[a] = Nobody)
        /\ req[r].got # Nobody
        /\ \A b \in Areas : b # a => temp'[b] = temp[b] /\ cog'[b] = cog[b]
    BY <1>10, <1>t, <1>p, <2>0 DEF ReplaceCog
  <2>2. /\ OnlyMoves(r) /\ req'[r].at \in {"clean", "image"} /\ req'[r].area = a
        /\ req'[r].got = req[r].got
    BY <1>10, GoMoves DEF ReplaceCog
  <2>3. ~Unwritten(req'[r])
    BY <2>1, <2>2 DEF Unwritten
  <2>4. a \notin met => req'[r].at = "clean" /\ cog'[a] = r /\ r \in written
    <3>1. a \notin met => temp[a] = r /\ r \in written
      BY <2>0, <2>1 DEF CogAt
    <3>. QED
      BY <1>10, <1>t, <3>1, GoMoves DEF ReplaceCog
  <2>5. a \notin met => CogAt(req[r], r)'
    BY <2>1, <2>2, <2>4 DEF CogAt, MaskMaking
  <2>6. a \notin met => /\ (a \in noted => cog[a] \in written)'
                        /\ (a \notin noted => mask[a] = Nobody)'
                        /\ (mask[a] # Nobody => mask[a] \in maskWhole /\ maskOf[mask[a]] = content[cog[a]])'
    BY <2>1, <2>4
  <2>. QED
    BY <1>0, <2>1, <2>2, <2>3, <2>5, <2>6, SoundMoves
<1>11. ASSUME NEW r \in Requests, CleanTemp(r) \/ NoteCog(r) PROVE Sound'
  <2>0. req[r].at \in {"clean", "note"} /\ req[r].at \in Promoting
    BY <1>11 DEF CleanTemp, NoteCog, Promoting
  <2> PICK a \in Areas : a = req[r].area
    BY <1>p, <2>0
  <2>1. /\ UNCHANGED <<cog, content, written, masks, met>> /\ r \in Making(a) /\ req[r].at \notin Ended
        /\ (a \notin met => AreaSound(a) /\ CogAt(req[r], r) /\ mask[a] = Nobody /\ cog[a] \in written)
        /\ req[r].got # Nobody
        /\ \A b \in Areas : b # a => temp'[b] = temp[b] /\ (b \in noted' <=> b \in noted)
    BY <1>11, <1>t, <1>p, <2>0 DEF CleanTemp, NoteCog, CogAt
  <2>2. /\ OnlyMoves(r) /\ req'[r].area = a /\ req'[r].got = req[r].got
        /\ (req'[r].at = "note" \/ (req'[r].at = "verify" /\ a \in noted'))
    BY <1>11, GoMoves DEF CleanTemp, NoteCog
  <2>3. ~Unwritten(req'[r])
    BY <2>1, <2>2 DEF Unwritten
  <2>4. a \notin met => CogAt(req[r], r)'
    BY <2>1, <2>2 DEF CogAt, MaskMaking
  <2>. QED
    BY <1>0, <2>1, <2>2, <2>3, <2>4, SoundMoves DEF AreaSound
<1>12. ASSUME NEW r \in Requests, ReadImage(r) \/ ReadMask(r) PROVE Sound'
  <2>0. /\ req[r].at \in {"image", "mask"} /\ UNCHANGED <<files, met>>
        /\ req[r] \in Request /\ req[r].at \notin Ended
    BY <1>12, PresentRequest DEF ReadImage, ReadMask, Ended
  <2>1. CASE Fail(r)
    BY <1>6, <2>0, <2>1 DEF Fail
  <2>2. CASE ~Fail(r)
    <3>1. OnlyMoves(r) /\ req'[r].at \in {"mask", "done"} /\ req'[r].area = req[r].area
      BY <1>0, <1>12, <2>0, <2>2 DEF ReadImage, ReadMask, OnlyMoves, Request
    <3>. QED
      BY <1>q, <2>0, <3>1 DEF Fetching, MaskMaking, Unwritten, Ended
  <2>. QED
    BY <2>1, <2>2
<1>13. ASSUME NEW r \in Requests, Stop(r) PROVE Sound'
  BY <1>6, <1>13 DEF Stop
<1>14. CASE UNCHANGED <<files, met, req>>
  BY <1>14 DEF Sound, AreaSound, Making, CogAt, HomedAt
<1>. QED
  BY <1>1, <1>1a, <1>2, <1>3, <1>4, <1>5, <1>7, <1>8, <1>9, <1>10, <1>11, <1>12, <1>13, <1>14
     DEF Next, Step, DeleteRequest, ScanReferences, RemoveRasters, vars

(* A noted COG is completely written, and so is its mask, which is of the same *)
(* mosaic, for any number of requests, wherever they stop or fail.           *)
THEOREM CanonicalIsSound == Spec => []CanonicalSound
<1>1. TypeInv /\ Kept /\ Sound /\ [Next]_vars => TypeInv' /\ Kept' /\ Sound'
  BY TypeStep, KeptStep, SoundStep
<1>2. TypeInv /\ Sound => CanonicalSound
  BY DEF TypeInv, TypeOK, Sound, AreaSound, CanonicalSound
<1>. QED
  BY <1>1, <1>2, TypeInit, KeptInit, SoundInit, PTL DEF Spec
=============================================================================
