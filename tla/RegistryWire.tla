------------------------------ MODULE RegistryWire --------------------------
(***************************************************************************)
(* The messages of the service registry: the resolver that the gateway     *)
(* asks for nodes, and the publisher of a worker (registry/v1).            *)
(***************************************************************************)
EXTENDS Protobuf

ResolveMode == 0 .. 3

SignatureStatus == 0 .. 3

FreshnessStatus == 0 .. 3

Source == 0 .. 4

-----------------------------------------------------------------------------

Empty == <<>>

Offering ==
  <<Field(1, <<"id">>, "string"),
    Field(2, <<"pricePerWorkUnitWei", "price_per_work_unit_wei">>, "string"),
    Field(3, <<"warm">>, "bool"),
    Field(4, <<"constraintsJson", "constraints_json">>, "bytes")>>

Capability ==
  <<Field(1, <<"name">>, "string"),
    Field(2, <<"workUnit", "work_unit">>, "string"),
    Many(3, <<"offerings">>, Offering),
    Field(4, <<"extraJson", "extra_json">>, "bytes")>>

Node ==
  <<Field(1, <<"id">>, "string"),
    Field(2, <<"url">>, "string"),
    Field(3, <<"lat">>, "double"),
    Field(4, <<"lon">>, "double"),
    Field(5, <<"region">>, "string"),
    Many(6, <<"capabilities">>, Capability),
    Enum(7, <<"source">>, Source),
    Enum(8, <<"signatureStatus", "signature_status">>, SignatureStatus),
    Field(9, <<"operatorAddress", "operator_address">>, "string"),
    Field(10, <<"enabled">>, "bool"),
    Strings(11, <<"tierAllowed", "tier_allowed">>),
    Field(12, <<"weight">>, "int32")>>

ResolveByAddressRequest ==
  <<Field(1, <<"ethAddress", "eth_address">>, "string"),
    Field(2, <<"allowLegacyFallback", "allow_legacy_fallback">>, "bool"),
    Field(3, <<"allowUnsigned", "allow_unsigned">>, "bool"),
    Field(4, <<"forceRefresh", "force_refresh">>, "bool")>>

ResolveResult ==
  <<Field(1, <<"ethAddress", "eth_address">>, "string"),
    Field(2, <<"resolvedUri", "resolved_uri">>, "string"),
    Enum(3, <<"mode">>, ResolveMode),
    Many(4, <<"nodes">>, Node),
    Enum(5, <<"freshnessStatus", "freshness_status">>, FreshnessStatus),
    Moment(6, <<"cachedAt", "cached_at">>),
    Moment(7, <<"fetchedAt", "fetched_at">>),
    Field(8, <<"schemaVersion", "schema_version">>, "int32")>>

SelectRequest ==
  <<Field(1, <<"capability">>, "string"),
    Field(2, <<"offering">>, "string"),
    Field(3, <<"tier">>, "string"),
    Field(4, <<"minWeight", "min_weight">>, "int32"),
    Field(5, <<"geoLat", "geo_lat">>, "double"),
    Field(6, <<"geoLon", "geo_lon">>, "double"),
    Field(7, <<"geoWithinKm", "geo_within_km">>, "double"),
    Field(8, <<"hasGeo", "has_geo">>, "bool")>>

SelectResult ==
  <<Many(1, <<"nodes">>, Node)>>

ListKnownRequest == <<>>

KnownEntry ==
  <<Field(1, <<"ethAddress", "eth_address">>, "string"),
    Enum(2, <<"mode">>, ResolveMode),
    Enum(3, <<"freshnessStatus", "freshness_status">>, FreshnessStatus),
    Moment(4, <<"cachedAt", "cached_at">>)>>

ListKnownResult ==
  <<Many(1, <<"entries">>, KnownEntry)>>

RefreshRequest ==
  <<Field(1, <<"ethAddress", "eth_address">>, "string"),
    Field(2, <<"force">>, "bool")>>

GetAuditLogRequest ==
  <<Field(1, <<"ethAddress", "eth_address">>, "string"),
    Moment(2, <<"since">>),
    Field(3, <<"limit">>, "int32")>>

AuditEvent ==
  <<Moment(1, <<"at">>),
    Field(2, <<"ethAddress", "eth_address">>, "string"),
    Field(3, <<"kind">>, "string"),
    Enum(4, <<"mode">>, ResolveMode),
    Field(5, <<"detail">>, "string")>>

AuditLogResult ==
  <<Many(1, <<"events">>, AuditEvent)>>

HealthResult ==
  <<Field(1, <<"mode">>, "string"),
    Field(2, <<"chainOk", "chain_ok">>, "bool"),
    Field(3, <<"manifestFetcherOk", "manifest_fetcher_ok">>, "bool"),
    Field(4, <<"cacheSize", "cache_size">>, "int32"),
    Moment(5, <<"lastChainSuccess", "last_chain_success">>)>>

BuildManifestRequest ==
  <<Many(1, <<"nodes">>, Node),
    Moment(2, <<"expiresAt", "expires_at">>)>>

BuildResult ==
  <<Field(1, <<"manifestJson", "manifest_json">>, "bytes"),
    Field(2, <<"canonicalBytes", "canonical_bytes">>, "bytes"),
    Field(3, <<"canonicalSha256", "canonical_sha256">>, "string")>>

BuildAndSignRequest ==
  <<Many(1, <<"nodes">>, Node),
    Moment(2, <<"expiresAt", "expires_at">>)>>

SignManifestRequest ==
  <<Field(1, <<"manifestJson", "manifest_json">>, "bytes")>>

SignedManifest ==
  <<Field(1, <<"manifestJson", "manifest_json">>, "bytes"),
    Field(2, <<"signatureValue", "signature_value">>, "string")>>

WriteServiceURIRequest ==
  <<Field(1, <<"uri">>, "string")>>

TxHashResult ==
  <<Field(1, <<"txHash", "tx_hash">>, "string")>>

ProbeWorkerRequest ==
  <<Field(1, <<"url">>, "string"),
    Field(2, <<"timeoutSeconds", "timeout_seconds">>, "int32")>>

ProbeResult ==
  <<Field(1, <<"capabilitiesJson", "capabilities_json">>, "bytes")>>

-----------------------------------------------------------------------------

ResolverService ==
  [resolveByAddress |-> <<ResolveByAddressRequest, ResolveResult>>,
   select |-> <<SelectRequest, SelectResult>>,
   listKnown |-> <<ListKnownRequest, ListKnownResult>>,
   refresh |-> <<RefreshRequest, Empty>>,
   getAuditLog |-> <<GetAuditLogRequest, AuditLogResult>>,
   health |-> <<Empty, HealthResult>>]

PublisherService ==
  [buildManifest |-> <<BuildManifestRequest, BuildResult>>,
   signManifest |-> <<SignManifestRequest, SignedManifest>>,
   buildAndSign |-> <<BuildAndSignRequest, SignedManifest>>,
   writeServiceUri |-> <<WriteServiceURIRequest, TxHashResult>>,
   probeWorker |-> <<ProbeWorkerRequest, ProbeResult>>,
   health |-> <<Empty, HealthResult>>]
=============================================================================
