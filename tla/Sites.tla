------------------------------- MODULE Sites -------------------------------
(***************************************************************************)
(* The site management page: the list of sites, the form that creates or   *)
(* edits one, upload-and-publish, deletion.  The forms are modal, so one   *)
(* is open at a time; the requests they start go on after they are closed. *)
(*                                                                         *)
(* A site is a bucket and the rest of its configuration.  The bucket list  *)
(* is ordered as the server orders it, newest first.                       *)
(***************************************************************************)
EXTENDS Naturals, FiniteSets, FiniteSetsExt

CONSTANTS
    SiteIds,     \* ids of sites
    MaxBucket,   \* buckets are numbered by age
    Rests,       \* prefix, domains, documents and routing of a site
    NoRest,      \* a form without a domain
    Dialogs,     \* the forms of this instance
    MaxChanges,  \* bound on the changes by other clients
    Cached       \* the page was visited before: its site list is cached

Buckets == 1..MaxBucket
NoBucket == 0
SiteValues == [bucket : Buckets, rest : Rests]
Drafts == [bucket : Buckets \cup {NoBucket}, rest : Rests \cup {NoRest}]
NoSite == [bucket |-> NoBucket, rest |-> NoRest]

ASSUME SitesAssumption ==
    /\ {"none", "create", "upload"} \cap SiteIds = {}
    /\ Dialogs \subseteq SiteIds \cup {"create", "upload"}
    /\ MaxBucket \in Nat /\ MaxChanges \in Nat
    /\ NoRest \notin Rests
    /\ Cached \in BOOLEAN

\* The dialogs; an id stands for the edit form in the row of that site.
NoDialog == "none"
NoId == "none"
Create == "create"
Upload == "upload"
Kinds == {Create, "update", Upload}

VARIABLES
    site, bucket,           \* the server: its sites and its buckets
    sites, sitesFetch,      \* sitesQuery
    bucketList, bucketsFetch,  \* bucketsQuery
    dialog,                 \* the form that is open
    form, base,             \* its fields, and what the effect filled them with
    dirty,                  \* the user changed them since
    mut,                    \* the pending request of each kind
    del,                    \* deleteSiteMutation, per site
    uploadProgress,
    unlisted,               \* sites changed from here that no listing covers yet
    changes

sitesServer == <<site, bucket, changes>>
lists == <<sites, sitesFetch, bucketList, bucketsFetch>>
fields == <<form, base, dirty>>
sitesVars == <<sitesServer, lists, dialog, fields, mut, del, uploadProgress, unlisted>>

NoData == [known |-> FALSE, data |-> [i \in SiteIds |-> NoSite]]
NoBucketList == [known |-> FALSE, data |-> {}]
Idle == [phase |-> "idle", id |-> NoId, value |-> NoSite, from |-> NoDialog]

\* No one asked, asked, or answered with what covers the ids in covers.
NoSitesFetch == [phase |-> "idle", answer |-> NoData, covers |-> {}]
SitesSent == [phase |-> "sent", answer |-> NoData, covers |-> {}]
NoBucketFetch == [phase |-> "idle", answer |-> NoBucketList]
BucketsSent == [phase |-> "sent", answer |-> NoBucketList]

-----------------------------------------------------------------------------
(* The forms                                                               *)

defaultBucketName(b) == IF b.data = {} THEN NoBucket ELSE Max(b.data)

\* buildSiteFormValue, siteToSiteFormValue and the reset of the upload form.
\* The form of a new site, and the upload form, start with the first bucket.
initialDialogValue(d, s, b) ==
    IF d \in SiteIds THEN s.data[d]
    ELSE [bucket |-> defaultBucketName(b), rest |-> NoRest]

Filled(value) == form' = value /\ base' = value /\ dirty' = FALSE

\* The fields of a closed form are kept, and filled anew when it opens: what
\* they hold meanwhile does not matter.
Forgotten == Filled(NoSite)

\* The table, and the edit forms in it, are there unless a list is loading.
isLoading(s, sf, b, bf) ==
    \/ ~s.known /\ sf.phase # "idle"
    \/ ~b.known /\ bf.phase # "idle"

\* What the effects of the open dialog depend on: the upload form on the whole
\* bucket list, the others on its first entry and on the site.
Watched(d, s, b) ==
    IF d = Upload THEN <<d, b.data>>
    ELSE <<d, defaultBucketName(b), initialDialogValue(d, s, b)>>

\* The page is rendered with other lists: an edit form leaves with its row,
\* and the form on the screen is filled anew if its effect sees a change.
SitesRendered ==
    LET gone == /\ dialog \in SiteIds
                /\ \/ sites'.data[dialog] = NoSite
                   \/ isLoading(sites', sitesFetch', bucketList', bucketsFetch')
    IN /\ dialog' = IF gone THEN NoDialog ELSE dialog
       /\ CASE dialog' = NoDialog -> Forgotten
            [] dialog' # NoDialog
               /\ Watched(dialog, sites, bucketList) # Watched(dialog, sites', bucketList') ->
                   Filled(initialDialogValue(dialog, sites', bucketList'))
            [] OTHER -> UNCHANGED fields

\* The header's buttons need a bucket, the row's need the row.
openDialog(d) ==
    /\ dialog = NoDialog
    /\ IF d \in SiteIds
       THEN /\ sites.data[d] # NoSite
            /\ ~isLoading(sites, sitesFetch, bucketList, bucketsFetch)
       ELSE bucketList.data # {}
    /\ dialog' = d
    /\ Filled(initialDialogValue(d, sites, bucketList))
    /\ UNCHANGED <<sitesServer, lists, mut, del, uploadProgress, unlisted>>

closeDialog ==
    /\ dialog # NoDialog
    /\ dialog' = NoDialog
    /\ Forgotten
    /\ UNCHANGED <<sitesServer, lists, mut, del, uploadProgress, unlisted>>

KindOf(d) == IF d \in SiteIds THEN "update" ELSE d
pending(d) == mut[KindOf(d)].phase # "idle"

\* Any of the fields; all are disabled while a request of this kind is pending.
setFormValue(value) ==
    /\ dialog # NoDialog /\ ~pending(dialog)
    /\ value.bucket \in bucketList.data \cup {form.bucket}
    /\ value # form
    /\ form' = value
    /\ dirty' = TRUE
    /\ UNCHANGED <<sitesServer, lists, dialog, base, mut, del, uploadProgress, unlisted>>

canSubmit == form.bucket # NoBucket /\ form.rest # NoRest

handleSubmitSite ==
    /\ dialog # NoDialog /\ ~pending(dialog)
    /\ canSubmit
    /\ mut' = [mut EXCEPT ![KindOf(dialog)] =
                  [phase |-> "sent", id |-> IF dialog \in SiteIds THEN dialog ELSE NoId,
                   value |-> form, from |-> dialog]]
    /\ UNCHANGED <<sitesServer, lists, dialog, fields, del, uploadProgress, unlisted>>

-----------------------------------------------------------------------------
(* Requests                                                                *)

\* A write of the server to site i: an answer under way does not cover it.
Writes(i, value) ==
    /\ site' = [site EXCEPT ![i] = value]
    /\ sitesFetch' = [sitesFetch EXCEPT !.covers = @ \ {i}]
    /\ unlisted' = unlisted \cup {i}

\* onUploadProgress
UploadProgresses ==
    /\ mut[Upload].phase = "sent"
    /\ uploadProgress' = 1
    /\ UNCHANGED <<sitesServer, lists, dialog, fields, mut, del, unlisted>>

\* createSite and the two publish requests make a site, updateSite replaces
\* the whole configuration of one.
ServerApplies(k, i) ==
    /\ mut[k].phase = "sent"
    /\ mut[k].value.bucket \in bucket
    /\ IF k = "update" THEN i = mut[k].id /\ site[i] # NoSite ELSE site[i] = NoSite
    /\ Writes(i, mut[k].value)
    /\ mut' = [mut EXCEPT ![k].phase = "applied", ![k].id = i]
    /\ UNCHANGED <<bucket, changes, sites, bucketList, bucketsFetch, dialog, fields, del,
                   uploadProgress>>

\* invalidateQueries: a fetch under way is cancelled, or joined if it is the
\* first one of the list.
Joins == ~sites.known /\ sitesFetch.phase # "idle"
SitesInvalidated == IF Joins THEN sitesFetch ELSE SitesSent

\* Requests that await a fetch that ends or is cancelled are over: handleSubmit
\* goes on and closes its dialog, whoever opened it since.
Awaiting == {k \in Kinds : mut[k].phase = "awaiting"}
Closes(ks) == \E k \in ks : dialog # NoDialog /\ mut[k].from = dialog
Closed(ks) ==
    IF Closes(ks) THEN dialog' = NoDialog /\ Forgotten ELSE UNCHANGED <<dialog, fields>>

SubmitSucceeds_Mutant(k) ==
    /\ mut[k].phase = "applied"
    /\ uploadProgress' = IF k = Upload THEN 0 ELSE uploadProgress
    /\ mut' = [mut EXCEPT ![k] = Idle]
    /\ Closed({k})
    /\ UNCHANGED <<sitesServer, lists, del, unlisted>>

\* onSuccess of the mutation of kind k.
SubmitSucceeds(k) ==
    /\ mut[k].phase = "applied"
    /\ uploadProgress' = IF k = Upload THEN 0 ELSE uploadProgress
    /\ sitesFetch' = SitesInvalidated
    /\ LET over == IF Joins THEN {} ELSE Awaiting
       IN /\ mut' = [j \in Kinds |-> IF j \in over THEN Idle
                                     ELSE IF j = k THEN [mut[j] EXCEPT !.phase = "awaiting"]
                                     ELSE mut[j]]
          /\ Closed(over)
    /\ del' = IF Joins THEN del
              ELSE [i \in SiteIds |-> IF del[i] = "awaiting" THEN "idle" ELSE del[i]]
    /\ UNCHANGED <<sitesServer, sites, bucketList, bucketsFetch, unlisted>>

\* onError: refused, or the answer lost.  handleSubmit catches it.
SubmitFails_Mutant(k) ==
    /\ mut[k].phase \in {"sent", "applied"}
    /\ mut' = [mut EXCEPT ![k] = Idle]
    /\ Closed({k})
    /\ uploadProgress' = IF k = Upload THEN 0 ELSE uploadProgress
    /\ unlisted' = unlisted \ {mut[k].id}
    /\ UNCHANGED <<sitesServer, lists, del>>

SubmitFails(k) ==
    /\ mut[k].phase \in {"sent", "applied"}
    /\ mut' = [mut EXCEPT ![k] = Idle]
    /\ uploadProgress' = IF k = Upload THEN 0 ELSE uploadProgress
    /\ unlisted' = unlisted \ {mut[k].id}
    /\ UNCHANGED <<sitesServer, lists, dialog, fields, del>>

\* The confirmed deletion.  Deleting a site again before the first answer is
\* refused by the server and changes nothing: that is left out.
handleDeleteSite(i) ==
    /\ dialog = NoDialog
    /\ sites.data[i] # NoSite
    /\ ~isLoading(sites, sitesFetch, bucketList, bucketsFetch)
    /\ del[i] = "idle"
    /\ del' = [del EXCEPT ![i] = "sent"]
    /\ UNCHANGED <<sitesServer, lists, dialog, fields, mut, uploadProgress, unlisted>>

ServerDeletesSite(i) ==
    /\ del[i] = "sent"
    /\ site[i] # NoSite
    /\ Writes(i, NoSite)
    /\ del' = [del EXCEPT ![i] = "applied"]
    /\ UNCHANGED <<bucket, changes, sites, bucketList, bucketsFetch, dialog, fields, mut,
                   uploadProgress>>

SiteDeletionSucceeds(i) ==
    /\ del[i] = "applied"
    /\ sitesFetch' = SitesInvalidated
    /\ mut' = [k \in Kinds |-> IF k \in Awaiting /\ ~Joins THEN Idle ELSE mut[k]]
    /\ IF Joins THEN UNCHANGED <<dialog, fields>> ELSE Closed(Awaiting)
    /\ del' = [j \in SiteIds |-> IF j = i THEN "awaiting"
                             ELSE IF del[j] = "awaiting" /\ ~Joins THEN "idle" ELSE del[j]]
    /\ UNCHANGED <<sitesServer, sites, bucketList, bucketsFetch, uploadProgress, unlisted>>

SiteDeletionFails(i) ==
    /\ del[i] \in {"sent", "applied"}
    /\ del' = [del EXCEPT ![i] = "idle"]
    /\ unlisted' = unlisted \ {i}
    /\ UNCHANGED <<sitesServer, lists, dialog, fields, mut, uploadProgress>>

-----------------------------------------------------------------------------
(* The two lists                                                           *)

ServerListsSites ==
    /\ sitesFetch.phase = "sent"
    /\ sitesFetch' = [phase |-> "answered", covers |-> unlisted,
                      answer |-> [known |-> TRUE, data |-> site]]
    /\ UNCHANGED <<sitesServer, sites, bucketList, bucketsFetch, dialog, fields, mut, del,
                   uploadProgress, unlisted>>

\* What awaited the fetch is over, and then its dialog closes.
SitesFetched(known) ==
    /\ sites' = known
    /\ sitesFetch' = NoSitesFetch
    /\ UNCHANGED <<bucketList, bucketsFetch>>
    /\ mut' = [k \in Kinds |-> IF k \in Awaiting THEN Idle ELSE mut[k]]
    /\ del' = [i \in SiteIds |-> IF del[i] = "awaiting" THEN "idle" ELSE del[i]]
    /\ IF Closes(Awaiting)
       THEN dialog' = NoDialog /\ Forgotten
       ELSE SitesRendered
    /\ UNCHANGED <<sitesServer, uploadProgress>>

SitesArrive ==
    /\ sitesFetch.phase = "answered"
    /\ SitesFetched(sitesFetch.answer)
    /\ unlisted' = unlisted \ sitesFetch.covers

\* The error is shown above the list.
SitesFail ==
    /\ sitesFetch.phase # "idle"
    /\ SitesFetched(sites)
    /\ unlisted' = {}

ServerListsBuckets ==
    /\ bucketsFetch.phase = "sent"
    /\ bucketsFetch' = [phase |-> "answered", answer |-> [known |-> TRUE, data |-> bucket]]
    /\ UNCHANGED <<sitesServer, sites, sitesFetch, bucketList, dialog, fields, mut, del,
                   uploadProgress, unlisted>>

BucketsArrive ==
    /\ bucketsFetch.phase = "answered"
    /\ bucketList' = bucketsFetch.answer
    /\ bucketsFetch' = NoBucketFetch
    /\ UNCHANGED <<sites, sitesFetch>>
    /\ SitesRendered
    /\ UNCHANGED <<sitesServer, mut, del, uploadProgress, unlisted>>

BucketsFail ==
    /\ bucketsFetch.phase # "idle"
    /\ bucketsFetch' = NoBucketFetch
    /\ UNCHANGED <<sites, sitesFetch, bucketList>>
    /\ SitesRendered
    /\ UNCHANGED <<sitesServer, mut, del, uploadProgress, unlisted>>

\* The network comes back: what is not under way is fetched again.
Reconnect ==
    /\ sitesFetch' = IF sitesFetch.phase = "idle" THEN SitesSent ELSE sitesFetch
    /\ bucketsFetch' = IF bucketsFetch.phase = "idle" THEN BucketsSent ELSE bucketsFetch
    /\ UNCHANGED <<sites, bucketList>>
    /\ SitesRendered
    /\ UNCHANGED <<sitesServer, mut, del, uploadProgress, unlisted>>

-----------------------------------------------------------------------------
(* Another client creates, edits or deletes a site, creates or deletes a   *)
(* bucket; a bucket takes its sites with it.                               *)

OtherSite(i, value) ==
    /\ changes < MaxChanges
    /\ value # site[i]
    /\ value.bucket \in bucket \cup {NoBucket}
    /\ site' = [site EXCEPT ![i] = value]
    /\ changes' = changes + 1
    /\ UNCHANGED <<bucket, lists, dialog, fields, mut, del, uploadProgress, unlisted>>

OtherBucket(b) ==
    /\ changes < MaxChanges
    /\ bucket' = IF b \in bucket THEN bucket \ {b} ELSE bucket \cup {b}
    /\ site' = [i \in SiteIds |-> IF site[i].bucket \in bucket' THEN site[i] ELSE NoSite]
    /\ changes' = changes + 1
    /\ UNCHANGED <<lists, dialog, fields, mut, del, uploadProgress, unlisted>>

-----------------------------------------------------------------------------
SitesInit ==
    /\ bucket \in SUBSET Buckets
    /\ site \in [SiteIds -> {v \in SiteValues : v.bucket \in bucket} \cup {NoSite}]
    /\ changes = 0
    /\ sites = IF Cached THEN [known |-> TRUE, data |-> site] ELSE NoData
    /\ sitesFetch = SitesSent
    /\ bucketList \in {NoBucketList, [known |-> TRUE, data |-> bucket]}
    /\ bucketsFetch = BucketsSent
    /\ dialog = NoDialog
    /\ form = NoSite /\ base = NoSite /\ dirty = FALSE
    /\ mut = [k \in Kinds |-> Idle]
    /\ del = [i \in SiteIds |-> "idle"]
    /\ uploadProgress = 0
    /\ unlisted = {}

FormNext ==
    \/ \E d \in Dialogs : openDialog(d)
    \/ closeDialog
    \/ \E value \in Drafts : setFormValue(value)
    \/ handleSubmitSite

RequestNext ==
    \/ UploadProgresses
    \/ \E k \in Kinds : \/ \E i \in SiteIds : ServerApplies(k, i)
                        \/ SubmitSucceeds(k) \/ SubmitFails(k)
    \/ \E i \in SiteIds : \/ handleDeleteSite(i) \/ ServerDeletesSite(i)
                          \/ SiteDeletionSucceeds(i) \/ SiteDeletionFails(i)

ListNext ==
    \/ ServerListsSites \/ SitesArrive \/ SitesFail
    \/ ServerListsBuckets \/ BucketsArrive \/ BucketsFail
    \/ Reconnect

OtherSitesNext ==
    \/ \E i \in SiteIds, value \in SiteValues \cup {NoSite} : OtherSite(i, value)
    \/ \E b \in Buckets : OtherBucket(b)

SitesNext == FormNext \/ RequestNext \/ ListNext \/ OtherSitesNext

SitesSpec == SitesInit /\ [][SitesNext]_sitesVars

-----------------------------------------------------------------------------
(* Properties                                                              *)

\* Every variable has its type; a progress bar belongs to an upload, and the
\* form of a site is open only while its row is there.
SitesTypeOK ==
    /\ bucket \subseteq Buckets /\ site \in [SiteIds -> SiteValues \cup {NoSite}]
    /\ sites.data \in [SiteIds -> SiteValues \cup {NoSite}]
    /\ bucketList.data \subseteq Buckets
    /\ sitesFetch.phase \in {"idle", "sent", "answered"}
    /\ bucketsFetch.phase \in {"idle", "sent", "answered"}
    /\ dialog \in SiteIds \cup {NoDialog, Create, Upload}
    /\ form \in Drafts /\ base \in Drafts /\ dirty \in BOOLEAN
    /\ \A k \in Kinds : mut[k].phase \in {"idle", "sent", "applied", "awaiting"}
    /\ \A i \in SiteIds : del[i] \in {"idle", "sent", "applied", "awaiting"}
    /\ uploadProgress > 0 => mut[Upload].phase \in {"sent", "applied"}
    /\ unlisted \subseteq SiteIds
    /\ dialog \in SiteIds => sites.data[dialog] # NoSite

\* An open edit form was filled from the site as the list has it: saving never
\* puts back, in the fields the user left alone, a value that the list had
\* already replaced (updateSite sends the whole configuration).
BasedOnListing == dialog \in SiteIds => base = sites.data[dialog] /\ (dirty \/ form = base)

\* The upload form names a bucket that the list still has, although buckets
\* disappear while it is open.
BucketOffered ==
    dialog = Upload /\ bucketList.data # {} => form.bucket \in bucketList.data

\* What the user typed is given up only when the user closes the form, when a
\* request that was sent from that form succeeds, or when what the form was
\* filled from changed or left: never because a request failed or because of
\* what happens to another site.
DraftKept ==
    [][dirty /\ dialog # NoDialog /\ (dialog' # dialog \/ ~dirty') =>
          \/ closeDialog
          \/ /\ mut[KindOf(dialog)].from = dialog
             /\ mut[KindOf(dialog)].phase = "awaiting"
          \/ Watched(dialog, sites, bucketList) # Watched(dialog, sites', bucketList')
          \/ isLoading(sites', sitesFetch', bucketList', bucketsFetch')]_sitesVars

\* A site saved, created or deleted from here is in the list as soon as that
\* was reported and nothing is under way: the listing that covers it is
\* awaited, even if another request cancels and restarts it.
OwnWritesListed ==
    \A i \in unlisted :
        \/ \E k \in Kinds : mut[k].id = i /\ mut[k].phase = "applied"
        \/ del[i] = "applied"
        \/ sitesFetch.phase = "sent"
        \/ sitesFetch.phase = "answered" /\ i \in sitesFetch.covers
=============================================================================
