------------------------------ MODULE Entities ------------------------------
(***************************************************************************)
(* What the program expects of its database: of each entity of src/models, *)
(* its table with the columns TypeORM selects and writes, and of each      *)
(* enumeration kept in a type of the database, its values.                 *)
(***************************************************************************)
EXTENDS Schema

Entity(t, columns) == {Name(t)} \cup Columns(t, columns)
Enumeration(type, values) == {Value(type, v) : v \in values}

AlertPreference == Entity("alert_preferences", {"id", "wallet", "settlement_enabled",
    "kyc_expiry_enabled", "watchlist_change_enabled", "auto_invest_enabled", "maturity_enabled",
    "event_id", "updated_at"})
AnalyticsSnapshot == Entity("analytics_snapshots", {"id", "snapshot_date", "total_invoices_draft",
    "total_invoices_pending", "total_invoices_published", "total_invoices_funded",
    "total_invoices_settled", "total_invoices_cancelled", "total_invoices_rejected",
    "total_invoices", "daily_funding_volume", "cumulative_funding_volume", "active_investor_count",
    "settlement_rate", "created_at"})
AtomicSwap == Entity("atomic_swaps", {"id", "swap_id", "buyer_address", "seller_address",
    "buyer_invoice_id", "seller_invoice_id", "buyer_amount", "seller_amount", "fee_amount",
    "fee_recipient", "tx_hash", "ledger_sequence", "executed_at", "created_at"})
AuthChallenge == Entity("auth_challenges", {"id", "stellar_address", "nonce_hash", "message",
    "network", "issued_at", "expires_at", "consumed_at", "created_at"})
AutoInvestExecution == Entity("auto_invest_executions", {"id", "rule_id", "investor_id",
    "invoice_id", "investment_id", "amount", "status", "reason", "executed_at"})
AutoInvestRule == Entity("auto_invest_rules", {"id", "investor_id", "category", "min_yield",
    "max_face_value", "risk_tier", "max_per_invoice", "min_wallet_balance", "enabled",
    "created_at", "updated_at"})
BulkCancelledOrder == Entity("bulk_cancelled_orders", {"id", "order_id", "wallet", "invoice_id",
    "refund_amount", "event_id", "cancelled_at", "created_at"})
ContractAcl == Entity("contract_acls", {"id", "contract_address", "permitted_functions", "status",
    "added_at", "removed_at", "last_ledger", "last_tx_hash", "created_at", "updated_at"})
ContractAclLog == Entity("contract_acl_logs", {"id", "contract_address", "action",
    "permitted_functions", "ledger_sequence", "tx_hash", "actor", "created_at"})
CreatorKey == Entity("creator_keys", {"id", "creator_id", "key_address", "contract_address",
    "max_buy_per_tx", "max_buy_per_day", "current_supply", "curve_type", "config_version",
    "is_active", "creator_wallet", "name", "description", "image_url", "rating_count",
    "rating_sum", "average_rating", "created_at", "updated_at"})
CurveMigration == Entity("curve_migrations", {"id", "key_id", "proposal_id", "contract_address",
    "status", "proposed_params", "applied_params", "timelock_expiry", "proposed_at", "executed_at",
    "proposal_tx_hash", "execution_tx_hash", "ledger_sequence", "created_at", "updated_at"})
DividendAllocation == Entity("dividend_allocations", {"id", "allocation_id", "distribution_id",
    "issuer_wallet", "recipient_wallet", "amount", "cycle_frequency", "tx_hash", "ledger_sequence",
    "distributed_at", "created_at"})
DividendClaim == Entity("dividend_claims", {"id", "claim_id", "distribution_id", "issuer_wallet",
    "recipient_wallet", "amount", "cycle_frequency", "tx_hash", "ledger_sequence", "claimed_at",
    "created_at"})
DividendCycleConfig == Entity("dividend_cycle_configs", {"id", "issuer_wallet", "frequency",
    "next_distribution_at", "last_distribution_at", "created_at", "updated_at"})
DividendDistribution == Entity("dividend_distributions", {"id", "issuer_wallet", "total_amount",
    "recipient_count", "trigger", "tx_hash", "cycle_frequency", "status", "distributed_at",
    "created_at"})
FeeSchedule == Entity("fee_schedules", {"id", "investment_fee_bps", "settlement_fee_bps",
    "platform_fee_bps", "secondary_market_fee_bps", "is_active", "effective_from",
    "effective_until", "created_at", "updated_at"})
FeeScheduleHistory == Entity("fee_schedule_history", {"id", "fee_schedule_id", "actor_wallet",
    "actor_role", "old_investment_fee_bps", "old_settlement_fee_bps", "old_platform_fee_bps",
    "old_secondary_market_fee_bps", "new_investment_fee_bps", "new_settlement_fee_bps",
    "new_platform_fee_bps", "new_secondary_market_fee_bps", "change_reason", "created_at"})
Investment == Entity("investments", {"id", "invoice_id", "investor_id", "investment_amount",
    "expected_return", "actual_return", "status", "investor_wallet", "funding_block",
    "transaction_hash", "stellar_operation_index", "created_at", "updated_at", "deleted_at",
    "version"})
InvestmentEvent == Entity("investment_events", {"id", "wallet_address", "user_id", "type", "title",
    "message", "read", "created_at"})
InvestorAccreditation == Entity("investor_accreditations", {"id", "walletAddress", "tier",
    "verificationDate", "verificationSource", "createdAt", "updatedAt"})
InvestorAcknowledgement == Entity("investor_acknowledgements", {"id", "wallet_address", "user_id",
    "terms_version", "acknowledged_at", "created_at"})
InvestorPayout == Entity("investor_payouts", {"id", "invoice_id", "investor_id", "investment_id",
    "amount", "stellar_tx_hash", "status", "failure_reason", "created_at", "updated_at",
    "deleted_at", "version"})
InvestorReturn == Entity("investor_returns", {"id", "invoice_id", "investment_id", "investor_id",
    "return_amount", "amount", "created_at", "updated_at"})
InvestorRiskProfile == Entity("investor_risk_profiles", {"id", "wallet_address", "tier",
    "investment_experience", "time_horizon", "risk_tolerance", "annual_income_range",
    "net_worth_range", "investment_objective", "loss_tolerance_percentage", "created_at",
    "updated_at"})
Invoice == Entity("invoices", {"id", "seller_id", "invoice_number", "customer_name", "issuer_name",
    "description", "amount", "discount_rate", "net_amount", "funded_amount",
    "settlement_remainder", "due_date", "ipfs_hash", "risk_score", "category", "status",
    "smart_contract_id", "rejection_reason", "title", "face_value", "funding_target", "yield_bps",
    "funding_deadline", "ipfs_document_url", "seller_wallet", "soroban_contract_id",
    "onchain_status", "creation_tx_hash", "last_synced_ledger", "created_at", "updated_at",
    "deleted_at", "version"})
InvoiceDocument == Entity("invoice_documents", {"id", "invoice_id", "cid", "doc_type", "filename",
    "mime_type", "file_size", "created_at"})
InvoiceDraft == Entity("invoice_drafts", {"id", "seller_id", "seller_wallet", "draft_data",
    "last_saved_at", "expires_at", "created_at"})
InvoiceExtensionRequest == Entity("invoice_extension_requests", {"id", "invoice_id",
    "requested_by", "proposed_deadline", "previous_deadline", "reason", "status", "reviewed_by",
    "reviewed_at", "review_note", "created_at", "updated_at"})
InvoiceFraudReport == Entity("invoice_fraud_reports", {"id", "invoice_id", "reporter_wallet",
    "reason", "detail", "status", "review_note", "created_at", "updated_at"})
InvoiceRating == Entity("invoice_ratings", {"id", "invoice_id", "issuer_wallet", "rater_wallet",
    "rating", "event_id", "rated_at", "created_at"})
InvoiceStatusHistory == Entity("invoice_status_history", {"id", "invoice_id", "from_status",
    "to_status", "actor_role", "actor_id", "trigger", "reason", "created_at"})
IssuerReputation == Entity("issuer_reputations", {"id", "wallet_address", "score", "tier",
    "total_invoices_settled", "on_time_settlement_rate", "avg_days_late", "avg_days_early",
    "last_settled_at", "created_at", "updated_at"})
IssuerReputationHistory == Entity("issuer_reputation_history", {"id", "issuer_reputation_id",
    "old_score", "old_tier", "new_score", "new_tier", "invoice_id", "settlement_was_on_time",
    "trigger_reason", "created_at"})
KYCVerification == Entity("kyc_verifications", {"id", "user_id", "verification_type", "status",
    "documents", "wallet", "verified_at"})
KeyMergeProposal == Entity("key_merge_proposals", {"id", "key_id", "proposal_id",
    "contract_address", "source_key_id", "target_key_id", "source_contract_address",
    "target_contract_address", "conversion_ratio", "vote_threshold", "status", "votes_for",
    "votes_against", "total_votes", "holder_count", "threshold_reached", "voting_deadline",
    "timelock_expiry", "migration_summary", "proposed_at", "executed_at", "proposal_tx_hash",
    "execution_tx_hash", "ledger_sequence", "created_at", "updated_at"})
KeyMergeVote == Entity("key_merge_votes", {"id", "proposal_id", "voter_address", "support",
    "weight", "tx_hash", "ledger_sequence", "voted_at", "created_at"})
KeySubscription == Entity("key_subscriptions", {"id", "wallet", "key_id", "key_name",
    "min_holding", "current_balance", "expiry_ledger", "expiry_date", "last_notified_cycle",
    "last_notified_window", "is_active", "created_at", "updated_at"})
KycEvent == Entity("kyc_events", {"id", "wallet_address", "user_id", "type", "title", "message",
    "read", "created_at"})
KycHistory == Entity("kyc_history", {"id", "user_id", "wallet", "verification_type", "status",
    "documents", "rejection_reason", "provider_reference", "is_archived", "archived_at",
    "created_at"})
Notification == Entity("notifications", {"id", "user_id", "type", "title", "message", "data",
    "read", "dedupe_key", "timestamp", "created_at"})
OnboardingBonus == Entity("onboarding_bonuses", {"id", "wallet", "bonus_amount", "invoice_id",
    "claimed_at", "event_id"})
OnboardingProgress == Entity("onboarding_progress", {"id", "wallet_address", "tour_completed",
    "completed_at", "created_at", "updated_at"})
PendingStellarTransaction == Entity("pending_stellar_transactions", {"stellar_tx_hash",
    "contract_id", "status", "submitted_at", "last_checked_at", "confirmed_ledger",
    "failure_reason", "created_at", "updated_at"})
PoolRebalance == Entity("pool_rebalances", {"id", "pool_id", "status", "old_weights",
    "new_weights", "eta", "proposed_at", "executed_at", "proposed_event_id", "executed_event_id",
    "created_at"})
Referral == Entity("referrals", {"id", "referrer_wallet", "referee_wallet", "earned_amount",
    "claimed_amount", "created_at"})
ReferralTier == Entity("referral_tiers", {"id", "wallet", "tier", "commission_rate_bps",
    "cumulative_referred_volume", "last_event_id", "upgraded_at", "created_at"})
ReferralTierHistory == Entity("referral_tier_history", {"id", "wallet", "tier",
    "commission_rate_bps", "cumulative_referred_volume", "last_event_id", "upgraded_at",
    "created_at"})
RoyaltyClaim == Entity("royalty_claims", {"id", "claim_id", "key_address", "creator_wallet",
    "amount", "tx_hash", "ledger_sequence", "claimed_at", "created_at"})
RoyaltyEvent == Entity("royalty_events", {"id", "key_address", "creator_wallet", "buyer_wallet",
    "amount", "tx_hash", "ledger_sequence", "paid_at", "created_at"})
SecondaryAuction == Entity("secondary_auctions", {"id", "auction_id", "seller", "invoice_id",
    "status", "highest_bid", "highest_bidder", "reserve_price", "bid_count", "starts_at",
    "ends_at", "settled_at", "winner", "settlement_amount", "created_event_id", "created_at",
    "updated_at"})
SecondaryBid == Entity("secondary_bids", {"id", "auction_id", "bidder", "amount", "event_id",
    "placed_at", "created_at"})
SecondaryListing == Entity("secondary_listings", {"id", "invoice_id", "seller_wallet", "seller_id",
    "quantity", "price_per_fraction", "total_price", "status", "expires_at", "cancellation_reason",
    "created_at", "updated_at", "deleted_at", "version"})
SecondaryMarketPriceHistory == Entity("secondary_market_price_history", {"id", "invoiceId",
    "askPrice", "listingCount", "createdAt"})
SectorBenchmark == Entity("sector_benchmarks", {"id", "sector", "avg_yield", "avg_days_to_settle",
    "default_rate", "sample_count", "last_event_id", "created_at", "updated_at"})
SettlementEvent == Entity("settlement_events", {"id", "wallet_address", "user_id", "type", "title",
    "message", "read", "created_at"})
SettlementIntent == Entity("settlement_intents", {"id", "invoice_id", "status", "payload",
    "transaction_hash", "created_at", "updated_at"})
SettlementRemainder == Entity("settlement_remainders", {"id", "invoice_id", "remainder_amount",
    "total_settlement_amount", "total_distributed_amount", "created_at"})
SorobanEventLog == Entity("soroban_event_logs", {"id", "contract_id", "event_id",
    "ledger_sequence", "topic", "tx_hash", "payload", "processed", "created_at"})
SorobanIndexerCheckpoint == Entity("soroban_indexer_checkpoints", {"checkpoint_key",
    "ledger_sequence", "updated_at"})
StellarPaymentClaim == Entity("stellar_payment_claims", {"stellar_tx_hash",
    "stellar_operation_index", "investment_id", "transaction_id"})
Transaction == Entity("transactions", {"id", "user_id", "investment_id", "invoice_id", "type",
    "amount", "stellar_tx_hash", "stellar_operation_index", "status", "timestamp"})
User == Entity("users", {"id", "stellarAddress", "email", "userType", "kycStatus",
    "is_kyc_verified", "is_suspended", "suspended_at", "suspension_reason", "created_at",
    "updated_at", "deleted_at"})
UserAuditLog == Entity("user_audit_logs", {"id", "target_user_id", "actor_user_id", "action",
    "previous_value", "new_value", "reason", "created_at"})
WaitlistEntry == Entity("waitlist_entries", {"id", "wallet", "email", "referral_code",
    "referral_count", "status", "created_at", "updated_at"})
Watchlist == Entity("watchlist", {"id", "wallet_address", "user_id", "invoice_id", "notes",
    "created_at", "updated_at", "deleted_at", "version"})
WebhookDeliveryLog == Entity("webhook_delivery_logs", {"id", "subscription_id", "event_type",
    "event_id", "attempt", "response_status", "delivered", "error_message", "created_at"})
WebhookSubscription == Entity("webhook_subscriptions", {"id", "user_id", "url", "secret",
    "event_types", "active", "created_at", "updated_at"})
YieldAdjustment == Entity("yield_adjustments", {"id", "invoice_id", "settlement_event_id",
    "adjustment_bps", "basis_rating", "adjusted_yield", "settled_at", "transaction_hash",
    "created_at"})
YieldBoost == Entity("yield_boosts", {"id", "invoice_id", "wallet", "tier", "boost_bps",
    "last_event_id", "applied_at", "created_at"})

Entities == UNION {
    AlertPreference, AnalyticsSnapshot, AtomicSwap, AuthChallenge, AutoInvestExecution,
    AutoInvestRule, BulkCancelledOrder, ContractAcl, ContractAclLog, CreatorKey,
    CurveMigration, DividendAllocation, DividendClaim, DividendCycleConfig,
    DividendDistribution, FeeSchedule, FeeScheduleHistory, Investment, InvestmentEvent,
    InvestorAccreditation, InvestorAcknowledgement, InvestorPayout, InvestorReturn,
    InvestorRiskProfile, Invoice, InvoiceDocument, InvoiceDraft, InvoiceExtensionRequest,
    InvoiceFraudReport, InvoiceRating, InvoiceStatusHistory, IssuerReputation,
    IssuerReputationHistory, KYCVerification, KeyMergeProposal, KeyMergeVote,
    KeySubscription, KycEvent, KycHistory, Notification, OnboardingBonus,
    OnboardingProgress, PendingStellarTransaction, PoolRebalance, Referral, ReferralTier,
    ReferralTierHistory, RoyaltyClaim, RoyaltyEvent, SecondaryAuction, SecondaryBid,
    SecondaryListing, SecondaryMarketPriceHistory, SectorBenchmark, SettlementEvent,
    SettlementIntent, SettlementRemainder, SorobanEventLog, SorobanIndexerCheckpoint,
    StellarPaymentClaim, Transaction, User, UserAuditLog, WaitlistEntry, Watchlist,
    WebhookDeliveryLog, WebhookSubscription, YieldAdjustment, YieldBoost}

UserType == Enumeration("users_usertype_enum", {"seller", "investor", "both", "admin"})
KYCStatus == Enumeration("users_kycstatus_enum", {"pending", "in_review", "approved", "rejected",
    "expired"})
InvoiceStatus == Enumeration("invoices_invoicestatus_enum", {"draft", "pending", "published",
    "funded", "settled", "cancelled", "rejected", "failed"})
InvestmentStatus == Enumeration("investments_investmentstatus_enum", {"pending", "confirmed",
    "settled", "cancelled"})
TransactionType == Enumeration("transactions_transactiontype_enum", {"investment", "payment",
    "withdrawal", "refund"})
TransactionStatus == Enumeration("transactions_transactionstatus_enum", {"pending", "completed",
    "failed"})
KYCVerificationType == Enumeration("kyc_verifications_verificationtype_enum", {"identity",
    "address", "business"})
NotificationType == Enumeration("notifications_notificationtype_enum", {"invoice", "investment",
    "payment", "kyc", "system", "invoice_rejected", "kyc_approved", "kyc_rejected",
    "investment_confirmed", "invoice_funded", "invoice_settled", "investment_created",
    "invoice_approved", "invoice_deadline_extended", "invoice_matured", "settlement_received",
    "refund_processed", "secondary_market_sold", "kyc_status_change", "subscription",
    "subscription_expiring"})
ExtensionRequestStatus == Enumeration("extension_request_status_enum", {"pending", "approved",
    "rejected"})
RiskTier == Enumeration("auto_invest_rules_risktier_enum", {"low", "medium", "high"})
AutoInvestExecutionStatus == Enumeration("auto_invest_executions_status_enum", {"executed",
    "skipped_insufficient_balance", "failed"})
ReferralTierLevel == Enumeration("referral_tiers_tier_enum", {"standard", "bronze", "silver",
    "gold"})
LoyaltyTier == Enumeration("yield_boosts_tier_enum", {"bronze", "silver", "gold", "platinum"})
AuctionStatus == Enumeration("secondary_auctions_status_enum", {"active", "settled", "cancelled"})

Enumerations == UNION {
    UserType, KYCStatus, InvoiceStatus, InvestmentStatus,
    TransactionType, TransactionStatus, KYCVerificationType, NotificationType,
    ExtensionRequestStatus, RiskTier, AutoInvestExecutionStatus, ReferralTierLevel,
    LoyaltyTier, AuctionStatus}
=============================================================================
