--------------------------- MODULE WaybackMosaics ---------------------------
(***************************************************************************)
(* The imagery of one release over one range of tiles: the shared mosaic,  *)
(* downloaded under a lock directory for a list of available tiles, the    *)
(* canonical COG made of it for each area, which serves later requests in  *)
(* its place, and the compaction that removes a mosaic's rasters.          *)
(* A mosaic is known by the request that downloaded it, a COG or a mask by *)
(* the request that created it; readers open files by path, without a lock.*)
(***************************************************************************)
CONSTANTS
  Requests,
  Areas,      \* areas of interest whose bounding boxes have the same tiles
  Lists       \* lists of available tiles: they differ with the area, with a
              \* preflight that was not complete and between run and prefetch

ASSUME NamesAssumption == "nobody" \notin Requests \cup Areas /\ "any" \notin Lists

VARIABLES
  lock,       \* the request whose lock directory is there
  mosaic,     \* whose mosaic is in the cache directory
  rasters,    \* are mosaic.tif and mosaic.png still in it
  failing,    \* the requests whose download had tiles that failed
  tiles,      \* the list noted in the metadata of the mosaic of a request
  temp,       \* the file at reference_imagery_cog.tmp.tif, for each area
  cog,        \* the file at reference_imagery_cog.tif
  content,    \* whose mosaic the COG a request created holds
  written,    \* the requests whose COG is completely written
  noted,      \* the areas with metadata.json beside the COG
  maskTemp,   \* the file at valid_mask.tif.tmp
  mask,       \* the file at valid_mask.tif
  maskOf,     \* whose mosaic the mask a request created was made from
  maskWhole,  \* the requests whose mask is completely written
  mentions,   \* the requests whose JSON files name the mosaic's rasters
  compacting, \* a compaction has found no such file
  req,        \* the requests
  met,        \* history: the areas whose COG two requests were making at once
  compacted   \* history: was a mosaic's raster removed

shared  == <<lock, mosaic, rasters, failing, tiles>>
cogs    == <<temp, cog, content, written, noted>>
masks   == <<maskTemp, mask, maskOf, maskWhole>>
files   == <<cogs, masks>>
cleanup == <<mentions, compacting, compacted>>
vars    == <<shared, files, cleanup, req, met>>

Nobody  == "nobody"
AnyList == "any"
Owner   == Requests \cup {Nobody}
Places  == {"idle", "validate", "lock", "look", "download", "open", "write", "replace",
            "clean", "note", "verify", "maskwrite", "maskmove", "maskcheck",
            "image", "mask", "done", "failed", "stopped"}
Ended   == {"done", "failed", "stopped"}
Fetching   == {"lock", "look", "download"}
Promoting  == {"open", "write", "replace", "clean", "note", "verify"}
MaskMaking == {"maskwrite", "maskmove", "maskcheck"}

\* area: Nobody for a prefetch.  list: the tiles it asks for.  got: the mosaic
\* it was given.  canonical: it reads the COG in its place.  image, mask: whose
\* mosaic it read.
Idle == [at |-> "idle", area |-> Nobody, list |-> AnyList, canonical |-> FALSE,
         got |-> Nobody, image |-> Nobody, mask |-> Nobody]

Making(a) == {r \in Requests : req[r].area = a /\ req[r].at \in Fetching \cup Promoting \cup MaskMaking}
Go(r, at) == req' = [req EXCEPT ![r].at = at]
End(r, at) == req' = [req EXCEPT ![r] = [Idle EXCEPT !.at = at, !.list = req[r].list]]
Fail(r)   == End(r, "failed")

Init ==
  /\ lock = Nobody /\ mosaic = Nobody /\ rasters = FALSE /\ failing = {}
  /\ tiles = [r \in Requests |-> AnyList]
  /\ temp = [a \in Areas |-> Nobody] /\ cog = [a \in Areas |-> Nobody]
  /\ content = [r \in Requests |-> Nobody] /\ written = {} /\ noted = {}
  /\ maskTemp = [a \in Areas |-> Nobody] /\ mask = [a \in Areas |-> Nobody]
  /\ maskOf = [r \in Requests |-> Nobody] /\ maskWhole = {}
  /\ mentions = {} /\ compacting = FALSE /\ compacted = FALSE
  /\ req = [r \in Requests |-> Idle] /\ met = {}

\* The tiles that the area meets, of those that a complete preflight found.
Start(r, a, list) ==
  /\ req[r].at = "idle"
  /\ req' = [req EXCEPT ![r] = [Idle EXCEPT !.at = "validate", !.area = a, !.list = list]]
  /\ UNCHANGED <<shared, files, cleanup, met>>

\* A prefetch only downloads: what a complete preflight found, or any tile.
Prefetch(r, list) ==
  /\ req[r].at = "idle"
  /\ req' = [req EXCEPT ![r] = [Idle EXCEPT !.at = "lock", !.list = list]]
  /\ UNCHANGED <<shared, files, cleanup, met>>

-----------------------------------------------------------------------------
(* validate_canonical_cog_for_inference, before the download and after the   *)
(* promotion of the mosaic                                                   *)

\* A file still being written may open or not.
MayBeValid(a) == a \in noted /\ cog[a] # Nobody
MayBeInvalid(a) == a \notin noted \/ cog[a] \notin written

Meet(r) ==
  LET a == req[r].area IN met' = IF Making(a) \ {r} # {} THEN met \cup {a} ELSE met

Accept(r) ==
  /\ IF req[r].got = Nobody
     THEN req' = [req EXCEPT ![r].at = "image", ![r].canonical = TRUE,
                             ![r].got = content[cog[req[r].area]]]
     ELSE Go(r, "image")
  /\ UNCHANGED met

Reject(r) ==
  IF req[r].got = Nobody THEN Go(r, "lock") /\ Meet(r) ELSE Go(r, "image") /\ UNCHANGED met

\* The temporary file is removed, whoever writes it, and created again.
MakeMask(r) ==
  LET a == req[r].area IN
  /\ maskTemp' = [maskTemp EXCEPT ![a] = r]
  /\ maskOf' = [maskOf EXCEPT ![r] = content[cog[a]]] /\ maskWhole' = maskWhole \ {r}
  /\ Go(r, "maskwrite") /\ Meet(r)
  /\ UNCHANGED mask

\* A mask with the COG's grid is kept, whatever COG it was made from.
Validate(r) ==
  LET a == req[r].area IN
  /\ req[r].at \in {"validate", "verify"}
  /\ \/ MayBeValid(a) /\ mask[a] # Nobody /\ Accept(r) /\ UNCHANGED masks
     \/ MayBeValid(a) /\ mask[a] \notin maskWhole /\ MakeMask(r)
     \/ (MayBeInvalid(a) \/ mask[a] \notin maskWhole \cup {Nobody}) /\ Reject(r) /\ UNCHANGED masks
  /\ UNCHANGED <<shared, cogs, cleanup>>

WriteMask(r) ==
  LET a == req[r].area IN
  /\ req[r].at = "maskwrite"
  /\ \/ maskWhole' = maskWhole \cup {r} /\ Go(r, "maskmove") /\ UNCHANGED <<maskTemp, met>>
     \/ maskTemp' = [maskTemp EXCEPT ![a] = Nobody] /\ Reject(r) /\ UNCHANGED maskWhole
  /\ UNCHANGED <<shared, cogs, mask, maskOf, cleanup>>

\* It moves the file that has the name by then.
MoveMask(r) ==
  LET a == req[r].area IN
  /\ req[r].at = "maskmove"
  /\ IF maskTemp[a] = Nobody
     THEN Reject(r) /\ UNCHANGED mask
     ELSE mask' = [mask EXCEPT ![a] = maskTemp[a]] /\ Go(r, "maskcheck") /\ UNCHANGED met
  /\ maskTemp' = [maskTemp EXCEPT ![a] = Nobody]
  /\ UNCHANGED <<shared, cogs, maskOf, maskWhole, cleanup>>

\* The temporary file is removed once more if another has made one.
CheckMask(r) ==
  LET a == req[r].area IN
  /\ req[r].at = "maskcheck"
  /\ maskTemp' = [maskTemp EXCEPT ![a] = Nobody]
  /\ \/ mask[a] # Nobody /\ Accept(r)
     \/ mask[a] \notin maskWhole /\ Reject(r)
  /\ UNCHANGED <<shared, cogs, mask, maskOf, maskWhole, cleanup>>

-----------------------------------------------------------------------------
(* download_wayback_mosaic *)

Lock(r) ==
  /\ req[r].at = "lock" /\ lock = Nobody
  /\ lock' = r /\ Go(r, "look")
  /\ UNCHANGED <<mosaic, rasters, failing, tiles, files, cleanup, met>>

\* Mutant: the request is left where nothing goes on with it.
LockTimeoutAdrift(r) ==
  /\ req[r].at = "lock" /\ lock # Nobody
  /\ Go(r, "timeout")
  /\ UNCHANGED <<shared, files, cleanup, met>>

\* Mutant: a request waits for the lock as long as it takes.
LockTimeoutNever(r) ==
  /\ req[r].at = "lock" /\ lock # Nobody
  /\ UNCHANGED vars

\* The lock of a request that was stopped is never removed.
LockTimeout(r) ==
  /\ req[r].at = "lock" /\ lock # Nobody
  /\ Fail(r)
  /\ UNCHANGED <<shared, files, cleanup, met>>

\* What a prefetch is given it does not read.
Given(r, owner) ==
  IF req[r].area = Nobody THEN End(r, "done")
  ELSE req' = [req EXCEPT ![r].at = "open", ![r].got = owner]

\* Mutant: a request without a list finds no mosaic that matches.
MatchesListed(r) == mosaic \notin failing /\ req[r].list = tiles[mosaic]

Matches(r) == mosaic \notin failing /\ req[r].list \in {AnyList, tiles[mosaic]}

\* A mosaic with failed tiles or of another list of tiles is removed, whoever
\* still reads it.
Look(r) ==
  /\ req[r].at = "look"
  /\ IF mosaic # Nobody /\ rasters /\ Matches(r)
     THEN lock' = Nobody /\ Given(r, mosaic) /\ UNCHANGED <<mosaic, rasters>>
     ELSE mosaic' = Nobody /\ rasters' = FALSE /\ Go(r, "download") /\ UNCHANGED lock
  /\ UNCHANGED <<failing, tiles, files, cleanup, met>>

\* Tiles are retried and then given up; without any tile the request fails.
\* Without a list the tiles that were found are noted.
Download(r) ==
  /\ req[r].at = "download"
  /\ lock' = Nobody
  /\ \/ Fail(r) /\ UNCHANGED <<mosaic, rasters, failing, tiles>>
     \/ /\ mosaic' = r /\ rasters' = TRUE
        /\ failing' \in {failing, failing \cup {r}}
        /\ \E list \in Lists :
             /\ req[r].list \in {AnyList, list}
             /\ tiles' = [tiles EXCEPT ![r] = list]
        /\ Given(r, r)
  /\ UNCHANGED <<files, cleanup, met>>

-----------------------------------------------------------------------------
(* _promote_mosaic_to_canonical: whatever fails, the request goes on *)

\* Mutant: a temporary file that is already there is taken for its own.
OpenCogKeepingTemp(r) ==
  LET a == req[r].area IN
  /\ req[r].at = "open"
  /\ IF mosaic = Nobody \/ ~rasters
     THEN Go(r, "image") /\ UNCHANGED <<temp, content>>
     ELSE IF cog[a] \in written /\ content[cog[a]] = mosaic
     THEN Go(r, "note") /\ UNCHANGED <<temp, content>>
     ELSE IF temp[a] # Nobody
     THEN Go(r, "replace") /\ UNCHANGED <<temp, content>>
     ELSE /\ temp' = [temp EXCEPT ![a] = r]
          /\ content' = [content EXCEPT ![r] = mosaic] /\ Go(r, "write")
  /\ UNCHANGED <<shared, cog, written, noted, masks, cleanup, met>>

\* A COG made of the mosaic that is there now is kept.  Else the temporary file
\* is removed, whoever writes it, and created again.
OpenCog(r) ==
  LET a == req[r].area IN
  /\ req[r].at = "open"
  /\ IF mosaic = Nobody \/ ~rasters
     THEN Go(r, "image") /\ UNCHANGED <<temp, content>>
     ELSE IF cog[a] \in written /\ content[cog[a]] = mosaic
     THEN Go(r, "note") /\ UNCHANGED <<temp, content>>
     ELSE /\ temp' = [temp EXCEPT ![a] = r]
          /\ content' = [content EXCEPT ![r] = mosaic] /\ Go(r, "write")
  /\ UNCHANGED <<shared, cog, written, noted, masks, cleanup, met>>

WriteCog(r) ==
  LET a == req[r].area IN
  /\ req[r].at = "write"
  /\ \/ written' = written \cup {r} /\ Go(r, "replace") /\ UNCHANGED temp
     \/ temp' = [temp EXCEPT ![a] = Nobody] /\ Go(r, "image") /\ UNCHANGED written
  /\ UNCHANGED <<shared, cog, content, noted, masks, cleanup, met>>

\* It checks and moves the file that has the name by then.
ReplaceCog(r) ==
  LET a == req[r].area IN
  /\ req[r].at = "replace"
  /\ \/ temp[a] # Nobody /\ cog' = [cog EXCEPT ![a] = temp[a]] /\ Go(r, "clean")
     \/ temp[a] \notin written /\ Go(r, "image") /\ UNCHANGED cog
  /\ temp' = [temp EXCEPT ![a] = Nobody]
  /\ UNCHANGED <<shared, content, written, noted, masks, cleanup, met>>

\* The temporary file is removed once more if another has made one.
CleanTemp(r) ==
  /\ req[r].at = "clean"
  /\ temp' = [temp EXCEPT ![req[r].area] = Nobody] /\ Go(r, "note")
  /\ UNCHANGED <<shared, cog, content, written, noted, masks, cleanup, met>>

NoteCog(r) ==
  /\ req[r].at = "note"
  /\ noted' = noted \cup {req[r].area} /\ Go(r, "verify")
  /\ UNCHANGED <<shared, temp, cog, content, written, masks, cleanup, met>>

-----------------------------------------------------------------------------
(* The detection reads the files by their paths *)

\* The response that names the paths is written at the end.
ReadImage(r) ==
  LET a == req[r].area IN
  /\ req[r].at = "image"
  /\ IF req[r].canonical
     THEN req' = [req EXCEPT ![r].at = "mask", ![r].image = content[cog[a]]]
     ELSE IF mosaic # Nobody /\ rasters
     THEN req' = [req EXCEPT ![r].at = "mask", ![r].image = mosaic]
     ELSE Fail(r)
  /\ UNCHANGED <<shared, files, cleanup, met>>

ReadMask(r) ==
  LET a == req[r].area IN
  /\ req[r].at = "mask"
  /\ \/ /\ req[r].canonical
        /\ req' = [req EXCEPT ![r].at = "done", ![r].mask = maskOf[mask[a]]]
        /\ UNCHANGED mentions
     \/ /\ ~req[r].canonical /\ mosaic # Nobody
        /\ req' = [req EXCEPT ![r].at = "done", ![r].mask = mosaic]
        /\ mentions' = mentions \cup {r}
     \/ ~req[r].canonical /\ mosaic = Nobody /\ Fail(r) /\ UNCHANGED mentions
  /\ UNCHANGED <<shared, files, compacting, compacted, met>>

Stop(r) ==
  /\ req[r].at \notin Ended \cup {"idle"}
  /\ End(r, "stopped")
  /\ UNCHANGED <<shared, files, cleanup, met>>

-----------------------------------------------------------------------------
(* Compaction, after a project whose milestones are all complete *)

\* A request's directory is deleted (mode delete_full).
DeleteRequest(r) ==
  /\ r \in mentions
  /\ mentions' = mentions \ {r}
  /\ UNCHANGED <<shared, files, compacting, req, met, compacted>>

\* The metadata of a COG names the mosaic; no JSON file may name its rasters.
ScanReferences ==
  /\ ~compacting /\ noted # {} /\ rasters /\ mentions = {}
  /\ compacting' = TRUE
  /\ UNCHANGED <<shared, files, mentions, req, met, compacted>>

RemoveRasters ==
  /\ compacting
  /\ compacting' = FALSE /\ rasters' = FALSE /\ compacted' = (compacted \/ rasters)
  /\ UNCHANGED <<lock, mosaic, failing, tiles, files, mentions, req, met>>

Step(r) ==
  \/ Validate(r) \/ Lock(r) \/ LockTimeout(r) \/ Look(r) \/ Download(r)
  \/ OpenCog(r) \/ WriteCog(r) \/ ReplaceCog(r) \/ CleanTemp(r) \/ NoteCog(r)
  \/ WriteMask(r) \/ MoveMask(r) \/ CheckMask(r)
  \/ ReadImage(r) \/ ReadMask(r)

Next ==
  \/ \E r \in Requests :
       \/ \E a \in Areas, list \in Lists : Start(r, a, list)
       \/ \E list \in Lists \cup {AnyList} : Prefetch(r, list)
       \/ Step(r) \/ Stop(r) \/ DeleteRequest(r)
  \/ ScanReferences \/ RemoveRasters

\* A running request takes its next step; a wait for the lock ends by it or by
\* the timeout.
Spec     == Init /\ [][Next]_vars
FairSpec == Spec /\ \A r \in Requests : WF_vars(Step(r))

-----------------------------------------------------------------------------
(* Properties *)

Request ==
  [at : Places, area : Areas \cup {Nobody}, list : Lists \cup {AnyList}, canonical : BOOLEAN,
   got : Owner, image : Owner, mask : Owner]

\* Every variable keeps its type: whoever waits, downloads, promotes or reads is
\* at a place of the code, and a path names the file of a request or none.
TypeOK ==
  /\ lock \in Owner /\ mosaic \in Owner /\ failing \in SUBSET Requests
  /\ tiles \in [Requests -> Lists \cup {AnyList}]
  /\ rasters \in BOOLEAN /\ compacting \in BOOLEAN /\ compacted \in BOOLEAN
  /\ temp \in [Areas -> Owner] /\ cog \in [Areas -> Owner]
  /\ content \in [Requests -> Owner] /\ maskOf \in [Requests -> Owner]
  /\ maskTemp \in [Areas -> Owner] /\ mask \in [Areas -> Owner]
  /\ written \in SUBSET Requests /\ maskWhole \in SUBSET Requests
  /\ mentions \in SUBSET Requests /\ noted \in SUBSET Areas /\ met \in SUBSET Areas
  /\ req \in [Requests -> Request]

\* It was given a mosaic, removed one to download its own, or ended.
HasLooked(q) ==
  ~req[q].canonical /\ (req[q].got # Nobody \/ req[q].at \in {"download"} \cup Ended)

\* A request reads the mosaic it was given to the end, although it holds no lock
\* any more and requests of any area and prefetches look for the mosaic again,
\* unless the mosaic had failed tiles, a compaction came in between or a request
\* that looked asked for another list of tiles (as one of the same area does
\* after an incomplete preflight or a prefetch): the code removes it then.
MosaicStays ==
  \A r \in Requests :
    /\ ~req[r].canonical /\ req[r].got \notin failing \cup {Nobody} /\ ~compacted
    /\ \A q \in Requests : HasLooked(q) => req[q].list \in {AnyList, tiles[req[r].got]}
    => /\ mosaic = req[r].got
       /\ {req[r].image, req[r].mask} \subseteq {Nobody, req[r].got}

\* A canonical COG that is noted is completely written and its mask, if it has
\* one, is completely written and made from the same mosaic, wherever requests
\* stopped, unless two requests were making it at once.
CanonicalSound ==
  \A a \in noted \ met :
    /\ cog[a] \in written
    /\ mask[a] # Nobody => mask[a] \in maskWhole /\ maskOf[mask[a]] = content[cog[a]]

\* Every request ends or is stopped, even one that waits for a lock nobody will
\* remove.
EveryRequestEnds ==
  \A r \in Requests : req[r].at \in {"validate", "lock"} ~> req[r].at \in Ended

=============================================================================
